---- MODULE Spec2Model ----
(***************************************************************************)
(* A model of the commodities ETL scripts: the record normalizers and the  *)
(* bulk loaders of supabase_uploader.py, the CSV loader of                 *)
(* upload_to_supabase.py, the USDA report clients and the commodity price  *)
(* client of commodity_fetcher.py.                                         *)
(*                                                                         *)
(* Each component is a specification of its own over the shared variables: *)
(*   SpecTransform   transform_cattle_data / transform_commodity_data      *)
(*   SpecLoad        upload_to_supabase / upload_cattle_data (batches)     *)
(*   SpecReload      the same loaders run again on the same records        *)
(*   SpecRead        the same loaders with a concurrent reader             *)
(*   SpecCsvLoad     upload_to_supabase(csv_file) of upload_to_supabase.py *)
(*   SpecRequest     USDAReportFetcher._make_request                       *)
(*   SpecFetch       fetch_historical_data and                             *)
(*                   fetch_federal_inspection_slaughter                    *)
(*   SpecProcess     process_csv_data of upload_to_supabase.py             *)
(*   SpecLatest      CommodityFetcher.fetch_latest_prices                  *)
(*   SpecSeries      CommodityFetcher.fetch_commodity_prices               *)
(*   SpecReports     USDAReportFetcher.fetch_multiple_reports              *)
(***************************************************************************)
EXTENDS Integers, Sequences, FiniteSets, TLC

VARIABLES
    \* -- the normalizers (SpecTransform)
    which,          \* transform under test: "cattle" or "commodity"
    cattle_df,      \* the frame handed to transform_cattle_data
    commodity_df,   \* the frame handed to transform_commodity_data
    now,            \* the wall clock read by datetime.now()
    out1,           \* outcome of the first call of the transform
    out2,           \* outcome of a second call on the same frame
    legacy_apply,   \* the installed pandas returns the frame itself from
                    \* DataFrame.apply(axis=1) on a frame without rows
    \* -- the bulk loaders of supabase_uploader.py (SpecLoad)
    loader,         \* "commodity" (upload_to_supabase) or "cattle"
                    \* (upload_cattle_data)
    records,        \* the records argument
    tables,         \* the store: table name -> rows, in insertion order
    stale,          \* the rows the target table held when the load began
    lpc,            \* "clear", "loop", "done"
    offset,         \* the offset of the current batch (the outer loop's i)
    attempt,        \* the inner loop's attempt
    retry_delay,    \* seconds to sleep before the next attempt
    calls,          \* the remote calls and sleeps made so far, in order
    runs,           \* how many times the load has been started
    seen,           \* what a concurrent reader of the table has read
    \* -- the loader of upload_to_supabase.py (SpecCsvLoad)
    csv_sizes,      \* records per table of process_csv_data's result
    csv_pc,         \* "load", "done", "raised"
    csv_table,      \* position of the current table in the result
    csv_offset,     \* the offset of the current batch (the loop's i)
    csv_store,      \* the store: table name -> rows inserted
    csv_calls,      \* the insert calls made so far, in order
    \* -- the USDA report client (SpecRequest)
    max_retries,    \* the max_retries argument of _make_request
    rpc,            \* "loop", "returned", "raised"
    retries,        \* the retries counter
    rlog,           \* the GET requests and sleeps made so far, in order
    rresult,        \* the body returned, or the error raised
    \* -- the section fetches of the USDA clients (SpecFetch)
    fetcher,        \* "historical" (fetch_historical_data) or "latest"
                    \* (fetch_federal_inspection_slaughter)
    metadata,       \* the 'results' list the report endpoint answers with
    report_date,    \* the report_date argument of the latest fetch
    matching_reports, \* the reports whose sections are queried
    fpc,            \* "metadata", "sections", "done" (the call has
                    \* returned its frame), "raised"
    report_idx,     \* position of the current report in matching_reports
    section_idx,    \* position of the current section in sections
    queries,        \* the _make_request calls and sleeps so far, in order
    all_data,       \* the items collected so far
    \* -- process_csv_data of upload_to_supabase.py (SpecProcess)
    csv_df,         \* the frame handed to process_csv_data
    dfs,            \* the dict it returns: table name -> rows
    ppc,            \* "call", "returned"
    \* -- CommodityFetcher.fetch_latest_prices (SpecLatest)
    symbols,        \* the symbols argument
    batch_start,    \* the offset of the current batch (the loop's i)
    latest_log,     \* the requests and sleeps made so far, in order
    all_prices,     \* symbol -> rate, as collected so far
    all_units,      \* symbol -> unit, as collected so far
    latest_pc,      \* "loop", "returned"
    \* -- CommodityFetcher.fetch_commodity_prices (SpecSeries)
    series_retries, \* the max_retries argument
    series_attempt, \* the loop's attempt
    series_log,     \* the requests and sleeps made so far, in order
    series_result,  \* "none" while the call runs, "frame" (a frame was
                    \* returned), "nothing" (None was returned), or the
                    \* message of the exception raised
    \* -- USDAReportFetcher.fetch_multiple_reports (SpecReports)
    reports,        \* the reports argument
    reports_idx,    \* position of the current report in reports
    reports_log,    \* the requests made so far, in order
    reports_data,   \* the rows collected so far (all_data)
    reports_pc      \* "loop", "returned"

tvars == <<which, cattle_df, commodity_df, now, out1, out2, legacy_apply>>
svars == <<runs, seen>>
lvars == <<loader, records, tables, stale, lpc, offset, attempt, retry_delay,
          calls, svars>>
cvars == <<csv_sizes, csv_pc, csv_table, csv_offset, csv_store, csv_calls>>
rvars == <<max_retries, rpc, retries, rlog, rresult>>
fvars == <<fetcher, metadata, report_date, matching_reports, fpc, report_idx,
          section_idx, queries, all_data>>
pvars == <<csv_df, dfs, ppc>>
bvars == <<symbols, batch_start, latest_log, all_prices, all_units,
          latest_pc>>
hvars == <<series_retries, series_attempt, series_log, series_result>>
mvars == <<reports, reports_idx, reports_log, reports_data, reports_pc>>
ovars == <<pvars, bvars, hvars, mvars>>
vars == <<tvars, lvars, cvars, rvars, fvars, ovars>>

-----------------------------------------------------------------------------
(* Bounds of the model.                                                    *)

MaxRows == 2        \* rows of an input frame
MaxClock == 1       \* clock ticks observed during a run
MaxRecords == 101   \* records handed to a loader of supabase_uploader.py
MaxCsvRows == 101   \* records of one table of the CSV loader
MaxGets == 5        \* GET requests of one _make_request call
MaxReports == 2     \* reports listed by the metadata endpoint
MaxRuns == 2        \* times a load is run on the same records
MaxReads == 2       \* reads of a concurrent reader during a load

-----------------------------------------------------------------------------
(* Cell values of a pandas frame.  A cell is null (NaN/None), a number or  *)
(* a string; a string is kept as the sequence of its characters where the  *)
(* code parses it (dates, volume) and as a sequence of words elsewhere.    *)

Null == [k |-> "null", s |-> <<>>, n |-> 0]
Str(s) == [k |-> "str", s |-> s, n |-> 0]
Num(n) == [k |-> "num", s |-> <<>>, n |-> n]
Float(n) == [k |-> "float", s |-> <<>>, n |-> n]
NaN == [k |-> "float", s |-> <<"nan">>, n |-> 0]

\* pd.isna(value)
IsNa(c) == c.k = "null" \/ c = NaN

Digits == <<"0", "1", "2", "3", "4", "5", "6", "7", "8", "9">>

IsDigit(c) == \E i \in 1..10 : Digits[i] = c

DigitVal(c) == (CHOOSE i \in 1..10 : Digits[i] = c) - 1

AllDigits(s) == \A i \in 1..Len(s) : IsDigit(s[i])

RECURSIVE ToInt(_)
ToInt(s) ==
    IF s = <<>> THEN 0
    ELSE 10 * ToInt(SubSeq(s, 1, Len(s) - 1)) + DigitVal(s[Len(s)])

\* zero-padded decimal of n in w characters (strftime's %Y, %m, %d)
RECURSIVE Pad(_, _)
Pad(n, w) ==
    IF w = 0 THEN <<>>
    ELSE Append(Pad(n \div 10, w - 1), Digits[(n % 10) + 1])

-----------------------------------------------------------------------------
(* Timestamps, strptime and strftime.                                      *)

NaT == [k |-> "nat", y |-> 0, m |-> 0, d |-> 0]
Timestamp(y, m, d) == [k |-> "ts", y |-> y, m |-> m, d |-> d]

IsLeap(y) == (y % 4 = 0 /\ y % 100 # 0) \/ y % 400 = 0

DaysIn(m, y) ==
    IF m = 2 THEN (IF IsLeap(y) THEN 29 ELSE 28)
    ELSE IF m \in {4, 6, 9, 11} THEN 30 ELSE 31

\* positions of the "/" separators of s
Slashes(s) == {i \in 1..Len(s) : s[i] = "/"}

\* the number of year digits a format directive takes: %Y four, %y two
YearDigits(fmt) == IF fmt = "%m/%d/%Y" THEN 4 ELSE 2

\* %y: 69..99 are 1969..1999, 00..68 are 2000..2068
Century(fmt, yy) ==
    IF fmt = "%m/%d/%Y" THEN yy
    ELSE IF yy >= 69 THEN 1900 + yy ELSE 2000 + yy

\* strptime of the character sequence s against '%m/%d/%Y' or '%m/%d/%y';
\* NaT stands for "does not match the format"
Strptime(s, fmt) ==
    IF Cardinality(Slashes(s)) # 2 THEN NaT
    ELSE
      LET a == CHOOSE i \in Slashes(s) : \A j \in Slashes(s) : i <= j
          b == CHOOSE i \in Slashes(s) : \A j \in Slashes(s) : j <= i
          ms == SubSeq(s, 1, a - 1)
          ds == SubSeq(s, a + 1, b - 1)
          ys == SubSeq(s, b + 1, Len(s))
      IN  IF /\ Len(ms) \in {1, 2} /\ AllDigits(ms)
             /\ Len(ds) \in {1, 2} /\ AllDigits(ds)
             /\ Len(ys) = YearDigits(fmt) /\ AllDigits(ys)
          THEN LET m == ToInt(ms)
                   d == ToInt(ds)
                   y == Century(fmt, ToInt(ys))
               IN  IF m \in 1..12 /\ d >= 1 /\ d <= DaysIn(m, y)
                   THEN Timestamp(y, m, d) ELSE NaT
          ELSE NaT

\* pd.to_datetime(value, format=fmt, errors=errors) on one cell: a null is
\* NaT; a string that does not match raises unless errors = 'coerce'
ToDatetime(c, fmt, errors) ==
    IF IsNa(c) THEN [raised |-> FALSE, ts |-> NaT]
    ELSE LET t == Strptime(c.s, fmt)
         IN  IF t = NaT /\ errors # "coerce"
             THEN [raised |-> TRUE, ts |-> NaT]
             ELSE [raised |-> FALSE, ts |-> t]

\* ts.strftime('%Y-%m-%d')
Strftime(ts) ==
    Str(Pad(ts.y, 4) \o <<"-">> \o Pad(ts.m, 2) \o <<"-">> \o Pad(ts.d, 2))

\* datetime.now().isoformat()
IsoFormat(t) == [k |-> "iso", s |-> <<>>, n |-> t]

\* float(value): a number, or a string that is a float literal (here: an
\* unsigned integer literal, the only numeric strings of the inputs); a NaN
\* cell is the float nan; anything else raises ValueError
ToFloat(c) ==
    IF c.k = "num" \/ c.k = "float" THEN [raised |-> FALSE, v |-> Float(c.n)]
    ELSE IF c.k = "null" THEN [raised |-> FALSE, v |-> NaN]
    ELSE IF c.s # <<>> /\ AllDigits(c.s)
         THEN [raised |-> FALSE, v |-> Float(ToInt(c.s))]
         ELSE [raised |-> TRUE, v |-> NaN]

-----------------------------------------------------------------------------
(* The outcome of a call: it either raised, or returned a list of records. *)

NotCalled == [called |-> FALSE, raised |-> "none", records |-> <<>>]
Returned(recs) == [called |-> TRUE, raised |-> "none", records |-> recs]
Raised(err) == [called |-> TRUE, raised |-> err, records |-> <<>>]

-----------------------------------------------------------------------------
(* Each specification runs one component; the others stay idle.            *)

\* the normalizers are not running
IdleTransform ==
    /\ which = "none"
    /\ cattle_df = <<>>
    /\ commodity_df = <<>>
    /\ now = 0
    /\ out1 = NotCalled
    /\ out2 = NotCalled
    /\ legacy_apply = FALSE

\* the loaders are not running
IdleLoad ==
    /\ loader = "none"
    /\ records = <<>>
    /\ tables = [commodity_prices |-> <<>>, cattle_slaughter |-> <<>>,
                 commodities_data |-> <<>>]
    /\ stale = <<>>
    /\ lpc = "done"
    /\ offset = 0
    /\ attempt = 0
    /\ retry_delay = 1
    /\ calls = <<>>
    /\ runs = 0
    /\ seen = <<>>

CsvTables ==
    <<"cattle_slaughter", "meat_production", "head_percent", "region_data">>

\* the CSV loader is not running
IdleCsvLoad ==
    /\ csv_sizes = [k \in 1..4 |-> 0]
    /\ csv_pc = "done"
    /\ csv_table = 1
    /\ csv_offset = 0
    /\ csv_store = [n \in {CsvTables[k] : k \in 1..4} |-> <<>>]
    /\ csv_calls = <<>>

\* what a call ended with: the JSON body of the n-th response, or an error
NoResult == [body |-> 0, error |-> "none"]
ReturnedBody(n) == [body |-> n, error |-> "none"]
RaisedError(e) == [body |-> 0, error |-> e]

\* no request is being made
IdleRequest ==
    /\ max_retries = 0
    /\ rpc = "returned"
    /\ retries = 0
    /\ rlog = <<>>
    /\ rresult = NoResult

\* no section fetch is running
IdleFetch ==
    /\ fetcher = "none"
    /\ metadata = <<>>
    /\ report_date = Null
    /\ matching_reports = <<>>
    /\ fpc = "done"
    /\ report_idx = 1
    /\ section_idx = 1
    /\ queries = <<>>
    /\ all_data = <<>>

\* process_csv_data is not running
IdleProcess ==
    /\ csv_df = <<>>
    /\ dfs = [t \in {} |-> <<>>]
    /\ ppc = "returned"

\* no latest prices are being fetched
IdleLatest ==
    /\ symbols = <<>>
    /\ batch_start = 0
    /\ latest_log = <<>>
    /\ all_prices = [s \in {} |-> 0]
    /\ all_units = [s \in {} |-> ""]
    /\ latest_pc = "returned"

\* no price series is being fetched
IdleSeries ==
    /\ series_retries = 0
    /\ series_attempt = 0
    /\ series_log = <<>>
    /\ series_result = "none"

\* no list of reports is being fetched
IdleReports ==
    /\ reports = <<>>
    /\ reports_idx = 1
    /\ reports_log = <<>>
    /\ reports_data = <<>>
    /\ reports_pc = "returned"

\* the components added to the shared state last are not running
IdleOther == IdleProcess /\ IdleLatest /\ IdleSeries /\ IdleReports

-----------------------------------------------------------------------------
(* transform_cattle_data (supabase_uploader.py).  A row of the frame is a  *)
(* record of the columns the function reads.                               *)

RelevantDescriptions ==
    {"Head Slaughtered", "Live Weight", "Dressed Weight", "Total Red Meat"}

WeightDescriptions == {"Live Weight", "Dressed Weight"}

\* Series.str.contains(word, na=na) on one cell
StrContains(c, word, na) ==
    IF c.k # "str" THEN na ELSE \E i \in 1..Len(c.s) : c.s[i] = word

\* Series.isin(names) / `value in names` on one cell
IsIn(c, names) == \E d \in names : c = Str(<<d>>)

\* the .str accessor raises AttributeError on a column that holds no string
\* (a column read as all-NaN is float64)
StrAccessorRaises(df) ==
    df # <<>> /\ \A i \in 1..Len(df) : df[i].commodity.k # "str"

CattleFilter(row) ==
    /\ StrContains(row.commodity, "Cattle", FALSE)
    /\ ~StrContains(row.commodity, "Calves", FALSE)

DescriptionFilter(row) == IsIn(row.description, RelevantDescriptions)

\* faulty variant: the date is read from slaughter_date whatever the description
ResolveDateSlaughterOnly(row) ==
    ToDatetime(row.slaughter_date, "%m/%d/%y", "coerce")

\* the lambda of df.apply(..., axis=1): the date of one row
ResolveDate(row) ==
    IF IsIn(row.description, WeightDescriptions)
    THEN ToDatetime(row.report_date, "%m/%d/%Y", "raise")
    ELSE ToDatetime(row.slaughter_date, "%m/%d/%y", "coerce")

\* faulty variant: only a missing class is defaulted
ClassNameMissingOnly(row) ==
    IF IsNa(row.class) THEN Str(<<"All">>) ELSE row.class

\* class_name = row['class'], 'All' if pd.isna(class_name) or
\* class_name == ''
ClassName(row) ==
    IF IsNa(row.class) \/ row.class = Str(<<>>) THEN Str(<<"All">>)
    ELSE row.class

\* faulty variant: the record is dated by the clock, not by the row
CattleRecordToday(row, t) ==
    [slaughter_date |-> Strftime(Timestamp(2025, 1, 1 + t)),
     class |-> ClassName(row),
     description |-> row.description,
     volume |-> ToFloat(row.volume).v,
     unit |-> row.unit,
     created_at |-> IsoFormat(t)]

CattleRecord(row, t) ==
    [slaughter_date |-> Strftime(ResolveDate(row).ts),
     class |-> ClassName(row),
     description |-> row.description,
     volume |-> ToFloat(row.volume).v,
     unit |-> row.unit,
     created_at |-> IsoFormat(t)]

\* transform_cattle_data(df) called when the clock reads t
TransformCattle(df, t, legacy) ==
    LET cattle == SelectSeq(df, CattleFilter)
        relevant == SelectSeq(cattle, DescriptionFilter)
        HasDate(row) == ResolveDate(row).ts # NaT
        dated == SelectSeq(relevant, HasDate)
    IN  IF StrAccessorRaises(df) THEN Raised("AttributeError")
        ELSE IF relevant = <<>> /\ legacy
             \* df['date'] = <a frame of several columns>
             THEN Raised("ValueError")
        ELSE IF \E i \in 1..Len(relevant) : ResolveDate(relevant[i]).raised
             THEN Raised("ValueError")
        ELSE IF \E i \in 1..Len(dated) : ToFloat(dated[i].volume).raised
             THEN Raised("ValueError")
        ELSE Returned([i \in 1..Len(dated) |-> CattleRecord(dated[i], t)])

-----------------------------------------------------------------------------
(* transform_commodity_data (supabase_uploader.py).  A row of the wide     *)
(* frame is its date and its cells, a function of the frame's columns; the *)
(* column '{SYMBOL}_price' is the pair <<SYMBOL, "price">>.                *)

KnownSymbols ==
    <<"BEEF", "FC00", "GFU22", "GF", "LCAT", "LC00", "CORN", "CZ25">>

PriceCol(c) == <<c, "price">>
UnitCol(c) == <<c, "unit">>

\* faulty variant: the null check on the price is missing
HasPriceColumn(row, c) == PriceCol(c) \in DOMAIN row.cells

\* price_col in row and not pd.isna(row[price_col])
HasPrice(row, c) ==
    PriceCol(c) \in DOMAIN row.cells /\ ~IsNa(row.cells[PriceCol(c)])

CommodityRecord(row, c, t) ==
    [date |-> Strftime(row.date),
     commodity_symbol |-> c,
     price |-> ToFloat(row.cells[PriceCol(c)]).v,
     unit |-> IF UnitCol(c) \in DOMAIN row.cells /\ ~IsNa(row.cells[UnitCol(c)])
              THEN row.cells[UnitCol(c)] ELSE Null,
     created_at |-> IsoFormat(t)]

\* the records of one row: the inner loop over the fixed symbol list
RowRecords(row, t) ==
    LET Priced(c) == HasPrice(row, c)
        syms == SelectSeq(KnownSymbols, Priced)
    IN  [i \in 1..Len(syms) |-> CommodityRecord(row, syms[i], t)]

RECURSIVE FrameRecords(_, _)
FrameRecords(df, t) ==
    IF df = <<>> THEN <<>>
    ELSE RowRecords(Head(df), t) \o FrameRecords(Tail(df), t)

\* a row the loop body raises on: strftime of NaT, float() of a non-number
RowRaises(row) ==
    \/ row.date = NaT
    \/ \E i \in 1..Len(KnownSymbols) :
          /\ HasPrice(row, KnownSymbols[i])
          /\ ToFloat(row.cells[PriceCol(KnownSymbols[i])]).raised

\* transform_commodity_data(df) called when the clock reads t
TransformCommodity(df, t) ==
    IF \E i \in 1..Len(df) : RowRaises(df[i]) THEN Raised("ValueError")
    ELSE Returned(FrameRecords(df, t))

-----------------------------------------------------------------------------
(* The bulk loaders of supabase_uploader.py: upload_to_supabase(records)   *)
(* inserts into commodity_prices, upload_cattle_data(records) clears and   *)
(* then inserts into cattle_slaughter.  A record is its position in the    *)
(* records argument; the rows a table held before the load are 0.          *)

BatchSize == 50
MaxRetries == 3

TableOf(l) == IF l = "cattle" THEN "cattle_slaughter" ELSE "commodity_prices"

Min(a, b) == IF a < b THEN a ELSE b

\* faulty variant: the slice ends one record early
BatchShort(recs, off) ==
    SubSeq(recs, off + 1, Min(off + BatchSize - 1, Len(recs)))

\* records[i:i + batch_size]
Batch(recs, off) == SubSeq(recs, off + 1, Min(off + BatchSize, Len(recs)))

\* batch_num = i//batch_size + 1
BatchNum(off) == (off \div BatchSize) + 1

DeleteCall(ok) ==
    [op |-> "delete", table |-> "cattle_slaughter", batch_num |-> 0,
     batch |-> <<>>, ok |-> ok, secs |-> 0]

InsertCall(l, off, recs, ok) ==
    [op |-> "insert", table |-> TableOf(l), batch_num |-> BatchNum(off),
     batch |-> Batch(recs, off), ok |-> ok, secs |-> 0]

SleepCall(l, off, secs) ==
    [op |-> "sleep", table |-> TableOf(l), batch_num |-> BatchNum(off),
     batch |-> <<>>, ok |-> TRUE, secs |-> secs]

InitLoad ==
    /\ IdleTransform
    /\ IdleCsvLoad
    /\ IdleRequest
    /\ IdleFetch
    /\ IdleOther
    /\ loader \in {"commodity", "cattle"}
    /\ \E n \in 0..MaxRecords : records = [j \in 1..n |-> j]
    /\ stale \in {<<>>, <<0>>}
    /\ tables = [[commodity_prices |-> <<>>, cattle_slaughter |-> <<>>,
                  commodities_data |-> <<>>]
                    EXCEPT ![TableOf(loader)] = stale]
    /\ lpc = IF loader = "cattle" THEN "clear" ELSE "loop"
    /\ offset = 0
    /\ attempt = 0
    /\ retry_delay = 1
    /\ calls = <<>>
    /\ runs = 1
    /\ seen = <<>>

\* faulty variant: a delete that fails ends the load
ClearTableAborting ==
    /\ lpc = "clear"
    /\ \E ok \in BOOLEAN :
          /\ tables' = IF ok THEN [tables EXCEPT !.cattle_slaughter = <<>>]
                       ELSE tables
          /\ calls' = Append(calls, DeleteCall(ok))
          /\ lpc' = IF ok THEN "loop" ELSE "done"
    /\ UNCHANGED <<loader, records, stale, offset, attempt, retry_delay,
                   svars, tvars, ovars, cvars, rvars, fvars>>

\* faulty variant: the delete reports success and removes nothing
ClearTableKeeping ==
    /\ lpc = "clear"
    /\ \E ok \in BOOLEAN : calls' = Append(calls, DeleteCall(ok))
    /\ lpc' = "loop"
    /\ UNCHANGED <<loader, records, tables, stale, offset, attempt,
                   retry_delay, svars, tvars, ovars, cvars, rvars, fvars>>

\* upload_cattle_data: supabase.table('cattle_slaughter').delete()
\* .neq('id', 0).execute() inside try/except: a failure is printed and the
\* load goes on
ClearTable ==
    /\ lpc = "clear"
    /\ \E ok \in BOOLEAN :
          /\ tables' = IF ok THEN [tables EXCEPT !.cattle_slaughter = <<>>]
                       ELSE tables
          /\ calls' = Append(calls, DeleteCall(ok))
    /\ lpc' = "loop"
    /\ UNCHANGED <<loader, records, stale, offset, attempt, retry_delay,
                   svars, tvars, ovars, cvars, rvars, fvars>>

\* faulty variant: a batch that fails its last attempt ends the load
InsertBatchAborting ==
    /\ lpc = "loop"
    /\ offset < Len(records)
    /\ \E ok \in BOOLEAN :
          IF ok
          THEN /\ tables' = [tables EXCEPT ![TableOf(loader)] =
                                @ \o Batch(records, offset)]
               /\ calls' = Append(calls, InsertCall(loader, offset, records, TRUE))
               /\ offset' = offset + BatchSize
               /\ attempt' = 0
               /\ retry_delay' = 1
               /\ lpc' = lpc
          ELSE IF attempt = MaxRetries - 1
          THEN /\ calls' = Append(calls, InsertCall(loader, offset, records, FALSE))
               /\ lpc' = "done"
               /\ UNCHANGED <<tables, offset, attempt, retry_delay>>
          ELSE /\ calls' = calls \o <<InsertCall(loader, offset, records, FALSE),
                                      SleepCall(loader, offset, retry_delay)>>
               /\ attempt' = attempt + 1
               /\ retry_delay' = retry_delay * 2
               /\ UNCHANGED <<tables, offset, lpc>>
    /\ UNCHANGED <<loader, records, stale, svars, tvars, ovars, cvars, rvars, fvars>>

\* faulty variant: retry_delay is not reset for a new batch
InsertBatchSharedDelay ==
    /\ lpc = "loop"
    /\ offset < Len(records)
    /\ \E ok \in BOOLEAN :
          IF ok
          THEN /\ tables' = [tables EXCEPT ![TableOf(loader)] =
                                @ \o Batch(records, offset)]
               /\ calls' = Append(calls, InsertCall(loader, offset, records, TRUE))
               /\ offset' = offset + BatchSize
               /\ attempt' = 0
               /\ retry_delay' = retry_delay
          ELSE IF attempt = MaxRetries - 1
          THEN /\ calls' = Append(calls, InsertCall(loader, offset, records, FALSE))
               /\ offset' = offset + BatchSize
               /\ attempt' = 0
               /\ retry_delay' = retry_delay
               /\ UNCHANGED tables
          ELSE /\ calls' = calls \o <<InsertCall(loader, offset, records, FALSE),
                                      SleepCall(loader, offset, retry_delay)>>
               /\ attempt' = attempt + 1
               /\ retry_delay' = retry_delay * 2
               /\ UNCHANGED <<tables, offset>>
    /\ UNCHANGED <<loader, records, stale, lpc, svars, tvars, ovars, cvars, rvars,
                   fvars>>

\* one attempt of the inner loop on the batch at offset i: the insert, and
\* on failure the sleep and the doubling of retry_delay, or after the last
\* attempt the move to the next batch
InsertBatch ==
    /\ lpc = "loop"
    /\ offset < Len(records)
    /\ \E ok \in BOOLEAN :
          IF ok
          THEN /\ tables' = [tables EXCEPT ![TableOf(loader)] =
                                @ \o Batch(records, offset)]
               /\ calls' = Append(calls, InsertCall(loader, offset, records, TRUE))
               /\ offset' = offset + BatchSize
               /\ attempt' = 0
               /\ retry_delay' = 1
          ELSE IF attempt = MaxRetries - 1
          THEN /\ calls' = Append(calls, InsertCall(loader, offset, records, FALSE))
               /\ offset' = offset + BatchSize
               /\ attempt' = 0
               /\ retry_delay' = 1
               /\ UNCHANGED tables
          ELSE /\ calls' = calls \o <<InsertCall(loader, offset, records, FALSE),
                                      SleepCall(loader, offset, retry_delay)>>
               /\ attempt' = attempt + 1
               /\ retry_delay' = retry_delay * 2
               /\ UNCHANGED <<tables, offset>>
    /\ UNCHANGED <<loader, records, stale, lpc, svars, tvars, ovars, cvars, rvars,
                   fvars>>

\* the outer loop is exhausted: the loader returns
ReturnLoad ==
    /\ lpc = "loop"
    /\ offset >= Len(records)
    /\ lpc' = "done"
    /\ UNCHANGED <<loader, records, tables, stale, offset, attempt, retry_delay,
                   calls, svars, tvars, ovars, cvars, rvars, fvars>>

NextLoad == ClearTable \/ InsertBatch \/ ReturnLoad

SpecLoad == InitLoad /\ [][NextLoad]_vars

\* a load of n records, for n in sizes, into a table that is empty or not
LoadOf(sizes) ==
    /\ IdleTransform
    /\ IdleCsvLoad
    /\ IdleRequest
    /\ IdleFetch
    /\ IdleOther
    /\ loader \in {"commodity", "cattle"}
    /\ \E n \in sizes : records = [j \in 1..n |-> j]
    /\ stale \in {<<>>, <<0>>}
    /\ tables = [[commodity_prices |-> <<>>, cattle_slaughter |-> <<>>,
                  commodities_data |-> <<>>]
                    EXCEPT ![TableOf(loader)] = stale]
    /\ lpc = IF loader = "cattle" THEN "clear" ELSE "loop"
    /\ offset = 0
    /\ attempt = 0
    /\ retry_delay = 1
    /\ calls = <<>>
    /\ runs = 1
    /\ seen = <<>>

\* faulty variant: a new run starts from an empty table
RerunClearing ==
    /\ lpc = "done"
    /\ runs < MaxRuns
    /\ runs' = runs + 1
    /\ tables' = [tables EXCEPT ![TableOf(loader)] = <<>>]
    /\ lpc' = IF loader = "cattle" THEN "clear" ELSE "loop"
    /\ offset' = 0
    /\ attempt' = 0
    /\ retry_delay' = 1
    /\ UNCHANGED <<loader, records, stale, calls, seen, tvars, ovars, cvars, rvars,
                   fvars>>

\* the script is run again on the same CSV file: main calls the loader
\* with the same records, on the table as the run before left it
Rerun ==
    /\ lpc = "done"
    /\ runs < MaxRuns
    /\ runs' = runs + 1
    /\ lpc' = IF loader = "cattle" THEN "clear" ELSE "loop"
    /\ offset' = 0
    /\ attempt' = 0
    /\ retry_delay' = 1
    /\ UNCHANGED <<loader, records, tables, stale, calls, seen, tvars, ovars, cvars,
                   rvars, fvars>>

InitReload == LoadOf({0, 1, BatchSize + 1})

NextReload == NextLoad \/ Rerun

SpecReload == InitReload /\ [][NextReload]_vars

\* the table a dashboard query reads: load_cattle_data reads
\* 'cattle_slaughter', load_commodity_data reads 'commodities_data'
ReadTableOf(l) ==
    IF l = "cattle" THEN "cattle_slaughter" ELSE "commodities_data"

\* what a reader got: the rows, and how many calls the load had made
Observation(n, rows) == [at |-> n, rows |-> rows]

\* faulty variant: a reader sees the table as the load found it until the
\* load is over
ReadIsolated ==
    /\ loader # "none"
    /\ Len(seen) < MaxReads
    /\ seen' = Append(seen,
                  Observation(Len(calls),
                      IF lpc = "done" THEN tables[ReadTableOf(loader)]
                      ELSE IF loader = "cattle" THEN stale ELSE <<>>))
    /\ UNCHANGED <<loader, records, tables, stale, lpc, offset, attempt,
                   retry_delay, calls, runs, tvars, ovars, cvars, rvars, fvars>>

\* the dashboard's load_cattle_data / load_commodity_data on a cache miss,
\* run by another process at any moment: supabase.table(...).select('*')
\* .execute() answers with the rows the table holds at that moment
Read ==
    /\ loader # "none"
    /\ Len(seen) < MaxReads
    /\ seen' = Append(seen,
                  Observation(Len(calls), tables[ReadTableOf(loader)]))
    /\ UNCHANGED <<loader, records, tables, stale, lpc, offset, attempt,
                   retry_delay, calls, runs, tvars, ovars, cvars, rvars, fvars>>

InitRead == LoadOf({0, 1, BatchSize + 1, MaxRecords})

NextRead == NextLoad \/ Read

SpecRead == InitRead /\ [][NextRead]_vars

-----------------------------------------------------------------------------
(* upload_to_supabase(csv_file) of upload_to_supabase.py: the tables of    *)
(* process_csv_data's result are loaded in order, 100 records to a batch;  *)
(* a record is its position in its table's records.                        *)

CsvBatchSize == 100

\* records[i:i + batch_size]
CsvBatch(n, off) == [j \in 1..(Min(off + CsvBatchSize, n) - off) |-> off + j]

\* the tables of the result from position k on that still have a batch to
\* upload: process_csv_data returns no key for an empty frame
CsvPending(k, off) ==
    {t \in k..4 : IF t = k THEN off < csv_sizes[t] ELSE csv_sizes[t] > 0}

CsvInsertCall(t, off, ok) ==
    [table |-> CsvTables[t], batch_num |-> (off \div CsvBatchSize) + 1, ok |-> ok]

InitCsvLoad ==
    /\ IdleTransform
    /\ IdleLoad
    /\ IdleRequest
    /\ IdleFetch
    /\ IdleOther
    /\ csv_sizes \in [1..4 -> {0, 1, CsvBatchSize, MaxCsvRows}]
    /\ csv_pc = "load"
    /\ csv_table = 1
    /\ csv_offset = 0
    /\ csv_store = [n \in {CsvTables[k] : k \in 1..4} |-> <<>>]
    /\ csv_calls = <<>>

\* one pass of the batch loop: supabase.table(table_name).insert(batch)
\* .execute(); an exception is logged and raised again, and raised again
\* by the handler around the whole upload
CsvInsertBatch ==
    /\ csv_pc = "load"
    /\ CsvPending(csv_table, csv_offset) # {}
    /\ LET t == CHOOSE x \in CsvPending(csv_table, csv_offset) :
                    \A y \in CsvPending(csv_table, csv_offset) : x <= y
           off == IF t = csv_table THEN csv_offset ELSE 0
       IN  \E ok \in BOOLEAN :
              /\ csv_calls' = Append(csv_calls, CsvInsertCall(t, off, ok))
              /\ csv_table' = t
              /\ IF ok
                 THEN /\ csv_store' = [csv_store EXCEPT ![CsvTables[t]] =
                                          @ \o CsvBatch(csv_sizes[t], off)]
                      /\ csv_offset' = off + CsvBatchSize
                      /\ csv_pc' = csv_pc
                 ELSE /\ csv_pc' = "raised"
                      /\ csv_offset' = off
                      /\ UNCHANGED csv_store
    /\ UNCHANGED <<csv_sizes, tvars, ovars, lvars, rvars, fvars>>

\* every table is uploaded: "Upload completed successfully"
CsvReturn ==
    /\ csv_pc = "load"
    /\ CsvPending(csv_table, csv_offset) = {}
    /\ csv_pc' = "done"
    /\ UNCHANGED <<csv_sizes, csv_table, csv_offset, csv_store, csv_calls,
                   tvars, ovars, lvars, rvars, fvars>>

NextCsvLoad == CsvInsertBatch \/ CsvReturn

SpecCsvLoad == InitCsvLoad /\ [][NextCsvLoad]_vars

-----------------------------------------------------------------------------
(* _make_request of USDAReportFetcher and USDAHistoricalFetcher (the two   *)
(* are the same code).  A response is a 200 with a body, a 429 with or     *)
(* without a Retry-After header, a 4xx/5xx status, another status, or no   *)
(* response at all (the GET raised a RequestException).                    *)

DefaultMaxRetries == 3
DefaultRetryAfter == 60

NoEvent ==
    [ev |-> "none", kind |-> "none", status |-> 0, header |-> "none",
     secs |-> 0, body |-> 0, error |-> "none"]

\* the n-th GET and what came back
GetEvent(kind, status, header, secs, n, error) ==
    [NoEvent EXCEPT !.ev = "get", !.kind = kind, !.status = status,
                    !.header = header, !.secs = secs, !.body = n,
                    !.error = error]

SleepEvent(secs) == [NoEvent EXCEPT !.ev = "sleep", !.secs = secs]

\* what the n-th GET can come back with
Responses(n) ==
    {GetEvent("ok", 200, "none", 0, n, "none"),
     GetEvent("rate", 429, "absent", 0, n, "none"),
     GetEvent("rate", 429, "int", 7, n, "none"),
     GetEvent("rate", 429, "date", 0, n, "none"),
     GetEvent("status", 500, "none", 0, n, "HTTPError"),
     GetEvent("status", 404, "none", 0, n, "HTTPError"),
     GetEvent("status", 204, "none", 0, n, "none"),
     GetEvent("exception", 0, "none", 0, n, "ConnectionError"),
     GetEvent("exception", 0, "none", 0, n, "Timeout")}

\* faulty variant: a missing Retry-After header is no wait at all
RetryAfterNoDefault(resp) == IF resp.header = "absent" THEN 0 ELSE resp.secs

\* int(response.headers.get('Retry-After', 60))
RetryAfter(resp) ==
    IF resp.header = "absent" THEN DefaultRetryAfter ELSE resp.secs

\* faulty variant: the backoff counts from the attempt index
BackoffFromZero(n) == 2 ^ (n - 1)

\* time.sleep(2 ** retries)
Backoff(n) == 2 ^ n

\* response.raise_for_status() raises HTTPError for a 4xx or 5xx status
RaisesForStatus(resp) == resp.status >= 400 /\ resp.status < 600

InitRequest ==
    /\ IdleTransform
    /\ IdleLoad
    /\ IdleCsvLoad
    /\ IdleFetch
    /\ IdleOther
    /\ max_retries \in 1..DefaultMaxRetries
    /\ rpc = "loop"
    /\ retries = 0
    /\ rlog = <<>>
    /\ rresult = NoResult

GetCount == Cardinality({k \in 1..Len(rlog) : rlog[k].ev = "get"})

\* one pass of the while loop: the GET and what the code does with the
\* response, up to the next test of retries < max_retries
Get ==
    /\ rpc = "loop"
    /\ GetCount < MaxGets
    /\ \E resp \in Responses(GetCount + 1) :
          IF resp.kind = "ok"
          THEN /\ rlog' = Append(rlog, resp)
               /\ rpc' = "returned"
               /\ rresult' = ReturnedBody(resp.body)
               /\ UNCHANGED retries
          ELSE IF resp.kind = "rate" /\ resp.header = "date"
          \* int() of an HTTP-date raises ValueError, no RequestException
          THEN /\ rlog' = Append(rlog, resp)
               /\ rpc' = "raised"
               /\ rresult' = RaisedError("ValueError")
               /\ UNCHANGED retries
          ELSE IF resp.kind = "rate"
          THEN /\ rlog' = rlog \o <<resp, SleepEvent(RetryAfter(resp))>>
               /\ retries' = retries + 1
               /\ rpc' = IF retries + 1 < max_retries THEN "loop" ELSE "raised"
               /\ rresult' = IF retries + 1 < max_retries THEN rresult
                             ELSE RaisedError("Max retries exceeded")
          ELSE IF resp.kind = "exception" \/ RaisesForStatus(resp)
          THEN /\ retries' = retries + 1
               /\ IF retries + 1 = max_retries
                  THEN /\ rlog' = Append(rlog, resp)
                       /\ rpc' = "raised"
                       /\ rresult' = RaisedError(resp.error)
                  ELSE /\ rlog' = rlog \o <<resp, SleepEvent(Backoff(retries + 1))>>
                       /\ UNCHANGED <<rpc, rresult>>
          ELSE /\ rlog' = Append(rlog, resp)
               /\ UNCHANGED <<retries, rpc, rresult>>
    /\ UNCHANGED <<max_retries, tvars, ovars, lvars, cvars, fvars>>

NextRequest == Get

SpecRequest == InitRequest /\ [][NextRequest]_vars

-----------------------------------------------------------------------------
(* The input frames.                                                       *)

ReportDateText == <<"1", "2", "/", "3", "0", "/", "2", "0", "2", "4">>
ReportDateShort == <<"1", "2", "/", "3", "0", "/", "2", "4">>
SlaughterDateText == <<"1", "2", "/", "2", "8", "/", "2", "4">>
SlaughterDateLong == <<"1", "2", "/", "2", "8", "/", "2", "0", "2", "4">>

BaseRow ==
    [commodity |-> Str(<<"Cattle">>),
     description |-> Str(<<"Head Slaughtered">>),
     report_date |-> Str(ReportDateText),
     slaughter_date |-> Str(SlaughterDateText),
     class |-> Str(<<"Steers">>),
     volume |-> Num(118),
     unit |-> Str(<<"head">>)]

\* the (report_date, slaughter_date) pairs of the input rows: each field is
\* in its own format, in the other field's format, or null
DatePairs ==
    {<<Str(ReportDateText), Str(SlaughterDateText)>>,
     <<Str(ReportDateShort), Str(SlaughterDateText)>>,
     <<Null, Str(SlaughterDateText)>>,
     <<Str(ReportDateText), Str(SlaughterDateLong)>>,
     <<Str(ReportDateText), Null>>}

\* rows that differ in the description and the two date fields: every pair
\* for one description of each kind, and for the other two the pair in
\* format and the pair whose applicable field is in the wrong format
DateRows ==
    {[BaseRow EXCEPT !.description = Str(<<d>>), !.report_date = p[1],
                     !.slaughter_date = p[2]] :
        d \in {"Live Weight", "Head Slaughtered"}, p \in DatePairs} \cup
    {[BaseRow EXCEPT !.description = Str(<<"Dressed Weight">>), !.report_date = r] :
        r \in {Str(ReportDateText), Str(ReportDateShort)}} \cup
    {[BaseRow EXCEPT !.description = Str(<<"Total Red Meat">>), !.slaughter_date = d] :
        d \in {Str(SlaughterDateText), Str(SlaughterDateLong)}}

\* rows that differ in class or in volume
ValueRows ==
    {[BaseRow EXCEPT !.class = c] : c \in {Str(<<>>), Null}} \cup
    {[BaseRow EXCEPT !.volume = v] :
        v \in {Str(<<"1", "1", "8">>), Str(<<"-">>),
               Str(<<"1", ",", "1", "8", "0">>), Null}}

\* rows that the filters drop
FilterRows ==
    {[BaseRow EXCEPT !.commodity = c] :
        c \in {Str(<<"Calves">>), Str(<<"Cattle", "and", "Calves">>), Null}} \cup
    {[BaseRow EXCEPT !.description = Str(<<"Percent of Total">>)]}

CattleRows == DateRows \cup ValueRows \cup FilterRows

RECURSIVE SeqsUpTo(_, _)
SeqsUpTo(S, n) ==
    IF n = 0 THEN {<<>>}
    ELSE SeqsUpTo(S, n - 1) \cup
         {Append(q, x) : q \in {p \in SeqsUpTo(S, n - 1) : Len(p) = n - 1}, x \in S}

CattleFrames == SeqsUpTo(CattleRows, MaxRows)

\* the columns a wide frame may have besides date; HOGS is no known symbol
WideColumns ==
    {PriceCol("BEEF"), UnitCol("BEEF"), PriceCol("CZ25"), PriceCol("HOGS")}

WideCell(col) ==
    IF col = PriceCol("HOGS") THEN {Num(2)}
    ELSE IF col[2] = "price" THEN {Null, Num(2)} ELSE {Null, Str(<<"lb">>)}

WideRows(cols) ==
    {[date |-> d, cells |-> f] :
        d \in {Timestamp(2025, 1, 10), Timestamp(2025, 1, 13)},
        f \in {g \in [cols -> {Null, Num(2), Str(<<"lb">>)}] :
                 \A col \in cols : g[col] \in WideCell(col)}}

CommodityFrames ==
    UNION {SeqsUpTo(WideRows(cols), MaxRows) : cols \in SUBSET WideColumns}

-----------------------------------------------------------------------------
(* SpecTransform: a frame is read, the transform is called on it, and      *)
(* called again later on the same frame.                                   *)

TransformOf(t) ==
    IF which = "cattle" THEN TransformCattle(cattle_df, t, legacy_apply)
    ELSE TransformCommodity(commodity_df, t)

InitTransform ==
    /\ IdleLoad
    /\ IdleCsvLoad
    /\ IdleRequest
    /\ IdleFetch
    /\ IdleOther
    /\ now = 0
    /\ out1 = NotCalled
    /\ out2 = NotCalled
    /\ \/ /\ which = "cattle"
          /\ cattle_df \in CattleFrames
          /\ commodity_df = <<>>
          /\ legacy_apply \in BOOLEAN
       \/ /\ which = "commodity"
          /\ cattle_df = <<>>
          /\ commodity_df \in CommodityFrames
          /\ legacy_apply = FALSE

\* time passes
Tick ==
    /\ now < MaxClock
    /\ ~out2.called
    /\ now' = now + 1
    /\ UNCHANGED <<which, cattle_df, commodity_df, out1, out2, legacy_apply, lvars, ovars,
                   cvars, rvars, fvars>>

\* records = transform_cattle_data(df) / transform_commodity_data(df)
CallTransform ==
    /\ ~out1.called
    /\ out1' = TransformOf(now)
    /\ UNCHANGED <<which, cattle_df, commodity_df, now, out2, legacy_apply, lvars, ovars,
                   cvars, rvars, fvars>>

\* the same call, on the same frame, at a later time
CallAgain ==
    /\ out1.called
    /\ ~out2.called
    /\ out2' = TransformOf(now)
    /\ UNCHANGED <<which, cattle_df, commodity_df, now, out1, legacy_apply, lvars, ovars,
                   cvars, rvars, fvars>>

NextTransform == Tick \/ CallTransform \/ CallAgain

SpecTransform == InitTransform /\ [][NextTransform]_vars

-----------------------------------------------------------------------------
(* fetch_historical_data (usda_historical_fetcher.py) and                  *)
(* fetch_federal_inspection_slaughter (usda_fetcher.py).  A report of the  *)
(* metadata and an item of a section are dicts: functions from keys to     *)
(* cells.  A call of _make_request is one step: it returns the JSON body   *)
(* or it raises.                                                            *)

\* dict.get(key): None when the key is absent
DictGet(d, key) == IF key \in DOMAIN d THEN d[key] ELSE Null

\* dict.update(other): the keys of other are set, the rest is kept
DictUpdate(d, other) ==
    [key \in DOMAIN d \cup DOMAIN other |->
        IF key \in DOMAIN other THEN other[key] ELSE d[key]]

Sections ==
    <<"Report FIS Species", "Report FIS Cattle", "Report FIS Meat Production",
      "Report FIS Head Percent", "Report FIS Region">>

\* slug_id="3658", start_date="10/16/2024", end_date="12/27/2024" of main
SlugId == "3658"
StartDate == <<"1", "0", "/", "1", "6", "/", "2", "0", "2", "4">>
EndDate == <<"1", "2", "/", "2", "7", "/", "2", "0", "2", "4">>

\* the reports the metadata endpoint may list: two that end inside the
\* range (on its first and on its last day), one that ends the day after
\* it, and one whose report_end_date is not written MM/DD/YYYY
Report(office, state, rdate, begin, end) ==
    [office_name |-> Str(<<office>>),
     office_code |-> Str(<<office, "code">>),
     office_city |-> Str(<<office, "city">>),
     office_state |-> Str(<<state>>),
     report_date |-> Str(rdate),
     report_begin_date |-> Str(begin),
     report_end_date |-> Str(end),
     published_date |-> Str(rdate),
     market_type |-> Str(<<"Slaughter", state>>),
     report_title |-> Str(<<"Actual Slaughter", office>>)]

OctoberReport ==
    Report("Des Moines", "IA", <<"1", "0", "/", "1", "7", "/", "2", "0", "2", "4">>, <<"1", "0", "/", "1", "0", "/", "2", "0", "2", "4">>, StartDate)

DecemberReport ==
    Report("St Joseph", "MO", <<"1", "2", "/", "3", "0", "/", "2", "0", "2", "4">>, <<"1", "2", "/", "2", "1", "/", "2", "0", "2", "4">>, EndDate)

LateReport ==
    Report("Greeley", "CO", <<"1", "2", "/", "3", "1", "/", "2", "0", "2", "4">>, <<"1", "2", "/", "2", "2", "/", "2", "0", "2", "4">>, <<"1", "2", "/", "2", "8", "/", "2", "0", "2", "4">>)

IsoReport ==
    Report("Amarillo", "TX", <<"1", "2", "/", "2", "9", "/", "2", "0", "2", "4">>, <<"1", "2", "/", "2", "0", "/", "2", "0", "2", "4">>, <<"2", "0", "2", "4", "-", "1", "2", "-", "2", "6">>)

KnownReports == {OctoberReport, DecemberReport, LateReport, IsoReport}

\* the items of the body answered to the k-th section query: as many as
\* the section holds (none for Meat Production), each with its own values
\* under the keys the fetch is about to set
ItemsIn == <<2, 1, 0, 1, 1>>

ItemKeys ==
    {"office_name", "office_code", "office_city", "office_state",
     "report_date", "report_begin_date", "report_end_date", "published_date",
     "market_type", "slug_id", "slug_name", "report_title", "section"}

ApiItem(k, j) ==
    [key \in ItemKeys \cup {"row"} |->
        IF key = "row" THEN Num(10 * k + j) ELSE Str(<<"api">>)]

\* faulty variant: a value the item came with is kept
HistoricalEnrichKeeping(item, report, section) ==
    DictUpdate([section |-> Str(<<section>>)], item)

\* item.update({...}) of fetch_historical_data; the report has no key
\* 'published_Date'
HistoricalEnrich(item, report, section) ==
    DictUpdate(item,
        [office_name |-> DictGet(report, "office_name"),
         office_code |-> DictGet(report, "office_code"),
         office_city |-> DictGet(report, "office_city"),
         office_state |-> DictGet(report, "office_state"),
         report_date |-> DictGet(report, "report_date"),
         report_begin_date |-> DictGet(report, "report_begin_date"),
         report_end_date |-> DictGet(report, "report_end_date"),
         published_date |-> DictGet(report, "published_Date"),
         market_type |-> DictGet(report, "market_type"),
         slug_id |-> Str(<<SlugId>>),
         slug_name |-> Str(<<"AMS_", SlugId>>),
         report_title |-> DictGet(report, "report_title"),
         section |-> Str(<<section>>)])

\* the four assignments of fetch_federal_inspection_slaughter
LatestEnrich(item, report, section) ==
    DictUpdate(item,
        [section |-> Str(<<section>>),
         report_date |-> report.report_date,
         report_begin_date |-> report.report_begin_date,
         report_end_date |-> report.report_end_date])

Enrich(f, item, report, section) ==
    IF f = "historical" THEN HistoricalEnrich(item, report, section)
    ELSE LatestEnrich(item, report, section)

\* a <= b on dates
DateLeq(a, b) ==
    \/ a.y < b.y
    \/ a.y = b.y /\ a.m < b.m
    \/ a.y = b.y /\ a.m = b.m /\ a.d <= b.d

\* datetime.strptime(report['report_end_date'], '%m/%d/%Y')
ReportEnd(report) == Strptime(report.report_end_date.s, "%m/%d/%Y")

\* start_datetime <= report_end <= end_datetime
InRange(report) ==
    /\ DateLeq(Strptime(StartDate, "%m/%d/%Y"), ReportEnd(report))
    /\ DateLeq(ReportEnd(report), Strptime(EndDate, "%m/%d/%Y"))

\* matching_reports of fetch_historical_data; a report_end_date that does
\* not parse raises out of the loop into the outer except
MatchingReports(md) ==
    IF \E k \in 1..Len(md) : ReportEnd(md[k]) = NaT THEN <<>>
    ELSE SelectSeq(md, InRange)

\* the report fetch_federal_inspection_slaughter takes its dates from: the
\* first of the list without a report_date, the first with that
\* report_date otherwise
TargetReport(md, rd) ==
    IF md = <<>> THEN <<>>
    ELSE IF rd = Null THEN <<md[1]>>
    ELSE LET hits == {k \in 1..Len(md) : md[k].report_date = rd}
         IN  IF hits = {} THEN <<>>
             ELSE <<md[CHOOSE k \in hits : \A h \in hits : k <= h]>>

\* one call of _make_request and one time.sleep, as entries of queries
FetchGet(endpoint, q, ok) ==
    [op |-> "get", endpoint |-> endpoint, q |-> q, ok |-> ok, secs |-> 0]
FetchSleep(secs) ==
    [op |-> "sleep", endpoint |-> "", q |-> Null, ok |-> TRUE, secs |-> secs]

IsSectionGet(e) == e.op = "get" /\ e.endpoint # "metadata"

\* the section queries made so far
SectionGets == SelectSeq(queries, IsSectionGet)

InitFetch ==
    /\ IdleTransform
    /\ IdleLoad
    /\ IdleCsvLoad
    /\ IdleRequest
    /\ IdleOther
    /\ fetcher \in {"historical", "latest"}
    /\ metadata \in SeqsUpTo(KnownReports, MaxReports)
    /\ report_date \in
          (IF fetcher = "historical" THEN {Null}
           ELSE {Null, DecemberReport.report_date, LateReport.report_end_date})
    /\ matching_reports = <<>>
    /\ fpc = "metadata"
    /\ report_idx = 1
    /\ section_idx = 1
    /\ queries = <<>>
    /\ all_data = <<>>

\* the metadata request and what follows it up to the first section query:
\* when it lists no report, or no report is selected, the fetch ends with
\* an empty frame; when it raises, the outer except of
\* fetch_historical_data logs and the empty frame is returned, that of
\* fetch_federal_inspection_slaughter logs and raises again
FetchMetadata ==
    /\ fpc = "metadata"
    /\ \E ok \in BOOLEAN :
          /\ queries' = Append(queries, FetchGet("metadata", Null, ok))
          /\ matching_reports' =
                IF ~ok THEN <<>>
                ELSE IF fetcher = "historical" THEN MatchingReports(metadata)
                ELSE TargetReport(metadata, report_date)
          /\ fpc' = IF ~ok /\ fetcher = "latest" THEN "raised"
                    ELSE IF matching_reports' = <<>> THEN "done"
                    ELSE "sections"
    /\ UNCHANGED <<fetcher, metadata, report_date, report_idx, section_idx,
                   all_data, tvars, ovars, lvars, cvars, rvars>>

\* faulty variant: a section that fails ends the fetch
QuerySectionAborting ==
    /\ fpc = "sections"
    /\ \E ok \in BOOLEAN :
          LET report == matching_reports[report_idx]
              section == Sections[section_idx]
              k == Len(SectionGets) + 1
              last == section_idx = Len(Sections)
          IN  /\ all_data' = all_data \o
                    (IF ok THEN [j \in 1..ItemsIn[section_idx] |->
                                   Enrich(fetcher, ApiItem(k, j), report, section)]
                     ELSE <<>>)
              /\ queries' = Append(queries,
                                FetchGet(section, report.report_end_date, ok))
              /\ section_idx' = IF last THEN 1 ELSE section_idx + 1
              /\ report_idx' = IF last THEN report_idx + 1 ELSE report_idx
              /\ fpc' = IF ~ok \/ (last /\ report_idx = Len(matching_reports))
                        THEN "done" ELSE "sections"
    /\ UNCHANGED <<fetcher, metadata, report_date, matching_reports, tvars, ovars,
                   lvars, cvars, rvars>>

\* one pass of the loop over sections: the query for the current section of
\* the current report; its items, if it answers any, are enriched and
\* collected; an exception is logged and the loop goes on.  The historical
\* fetch sleeps one second after the last section of a report.
QuerySection ==
    /\ fpc = "sections"
    /\ \E ok \in BOOLEAN :
          LET report == matching_reports[report_idx]
              section == Sections[section_idx]
              k == Len(SectionGets) + 1
              last == section_idx = Len(Sections)
          IN  /\ all_data' = all_data \o
                    (IF ok THEN [j \in 1..ItemsIn[section_idx] |->
                                   Enrich(fetcher, ApiItem(k, j), report, section)]
                     ELSE <<>>)
              /\ queries' = queries
                    \o <<FetchGet(section, report.report_end_date, ok)>>
                    \o (IF last /\ fetcher = "historical"
                        THEN <<FetchSleep(1)>> ELSE <<>>)
              /\ section_idx' = IF last THEN 1 ELSE section_idx + 1
              /\ report_idx' = IF last THEN report_idx + 1 ELSE report_idx
              /\ fpc' = IF last /\ report_idx = Len(matching_reports)
                        THEN "done" ELSE "sections"
    /\ UNCHANGED <<fetcher, metadata, report_date, matching_reports, tvars, ovars,
                   lvars, cvars, rvars>>

NextFetch == FetchMetadata \/ QuerySection

SpecFetch == InitFetch /\ [][NextFetch]_vars

-----------------------------------------------------------------------------
(* Claims about the normalizers, checked under SpecTransform.              *)

ClaimSymbols ==
    {"BEEF", "FC00", "GFU22", "GF", "LCAT", "LC00", "CORN", "CZ25"}

\* the rows of the wide frame dated d whose '{c}_price' column exists and is
\* not null
PricedRows(d, c) ==
    {i \in 1..Len(commodity_df) :
        /\ commodity_df[i].date = d
        /\ <<c, "price">> \in DOMAIN commodity_df[i].cells
        /\ commodity_df[i].cells[<<c, "price">>] # Null}

RecordsOf(out, d, c) ==
    {k \in 1..Len(out.records) :
        /\ out.records[k].date = Strftime(d)
        /\ out.records[k].commodity_symbol = c}

FrameDates == {commodity_df[i].date : i \in 1..Len(commodity_df)}

\* C1: transform_commodity_data returns, for every input row and every
\* symbol of the fixed list, exactly one record when the row's
\* '{SYMBOL}_price' column is present and non-null and none otherwise;
\* columns of other symbols yield no record and no error.
C1_OneRecordPerPricedSymbol ==
    (which = "commodity" /\ out1.called) =>
        /\ out1.raised = "none"
        /\ \A k \in 1..Len(out1.records) :
              /\ out1.records[k].commodity_symbol \in ClaimSymbols
              /\ \E d \in FrameDates : out1.records[k].date = Strftime(d)
        /\ \A d \in FrameDates : \A c \in ClaimSymbols :
              Cardinality(RecordsOf(out1, d, c)) = Cardinality(PricedRows(d, c))

C1_Witness ==
    /\ which = "commodity"
    /\ out1.called
    /\ Len(commodity_df) = 2
    /\ commodity_df[1].date = commodity_df[2].date
    /\ DOMAIN commodity_df[1].cells = WideColumns
    /\ commodity_df[1].cells[<<"BEEF", "price">>] # Null
    /\ commodity_df[1].cells[<<"CZ25", "price">>] = Null
    /\ commodity_df[2].cells[<<"CZ25", "price">>] # Null
    /\ Len(out1.records) = 2

\* the date the claim gives a row: report_date as MM/DD/YYYY for the weight
\* descriptions, slaughter_date as MM/DD/YY for the others
ClaimField(row) ==
    IF row.description \in {Str(<<"Live Weight">>), Str(<<"Dressed Weight">>)}
    THEN row.report_date ELSE row.slaughter_date

ClaimFormat(row) ==
    IF row.description \in {Str(<<"Live Weight">>), Str(<<"Dressed Weight">>)}
    THEN "%m/%d/%Y" ELSE "%m/%d/%y"

OtherField(row) ==
    IF row.description \in {Str(<<"Live Weight">>), Str(<<"Dressed Weight">>)}
    THEN row.slaughter_date ELSE row.report_date

ClaimDate(row) ==
    IF ClaimField(row).k = "str" THEN Strptime(ClaimField(row).s, ClaimFormat(row))
    ELSE NaT

PassesFilters(row) == CattleFilter(row) /\ DescriptionFilter(row)

ClaimKept(row) == PassesFilters(row) /\ ClaimDate(row) # NaT

\* the dates the other field of a row could be read as
OtherDates(row) ==
    IF OtherField(row).k = "str"
    THEN {Strftime(Strptime(OtherField(row).s, f)) : f \in {"%m/%d/%Y", "%m/%d/%y"}}
    ELSE {}

\* C2: every record of transform_cattle_data has the date of its row's
\* report_date read as MM/DD/YYYY when the description is Live Weight or
\* Dressed Weight, and of its row's slaughter_date read as MM/DD/YY when it
\* is Head Slaughtered or Total Red Meat; never the date of the other field.
C2_DateFieldByDescription ==
    (which = "cattle" /\ out1.called /\ out1.raised = "none") =>
        LET kept == SelectSeq(cattle_df, ClaimKept)
        IN  /\ Len(out1.records) = Len(kept)
            /\ \A k \in 1..Len(kept) :
                  /\ out1.records[k].description = kept[k].description
                  /\ out1.records[k].slaughter_date = Strftime(ClaimDate(kept[k]))
                  /\ out1.records[k].slaughter_date \notin OtherDates(kept[k])

C2_Witness ==
    /\ which = "cattle"
    /\ out1.called
    /\ Len(out1.records) = 2
    /\ cattle_df[1].description = Str(<<"Live Weight">>)
    /\ cattle_df[2].description = Str(<<"Total Red Meat">>)
    /\ out1.records[1].slaughter_date =
          Str(<<"2", "0", "2", "4", "-", "1", "2", "-", "3", "0">>)
    /\ out1.records[2].slaughter_date =
          Str(<<"2", "0", "2", "4", "-", "1", "2", "-", "2", "8">>)

\* float(volume) succeeds on every row that passes the filters
VolumesNumeric ==
    \A i \in 1..Len(cattle_df) :
        PassesFilters(cattle_df[i]) => cattle_df[i].volume.k \in {"num", "null"}

\* C3: when a row that passes the filters has an applicable date field that
\* does not parse, whichever its description, transform_cattle_data does
\* not raise and returns the records of the other rows only.
C3_UnparsedDateRowDropped ==
    (/\ which = "cattle"
     /\ out1.called
     /\ VolumesNumeric
     /\ \E i \in 1..Len(cattle_df) :
           PassesFilters(cattle_df[i]) /\ ClaimDate(cattle_df[i]) = NaT) =>
        /\ out1.raised = "none"
        /\ Len(out1.records) = Len(SelectSeq(cattle_df, ClaimKept))

\* a volume that is a string and no number
NonNumericVolume(row) == row.volume.k = "str" /\ ~AllDigits(row.volume.s)

\* C4: a row that passes the filters and has a valid date but a non-numeric
\* volume still yields a record, with volume null, and
\* transform_cattle_data does not raise.
C4_NonNumericVolumeIsNull ==
    (/\ which = "cattle"
     /\ out1.called
     /\ \A i \in 1..Len(cattle_df) : ClaimKept(cattle_df[i])
     /\ \E i \in 1..Len(cattle_df) : NonNumericVolume(cattle_df[i])) =>
        /\ out1.raised = "none"
        /\ Len(out1.records) = Len(cattle_df)
        /\ \A i \in 1..Len(cattle_df) :
              NonNumericVolume(cattle_df[i]) => IsNa(out1.records[i].volume)

Stamped(r) == [f \in (DOMAIN r) \ {"created_at"} |-> r[f]]

DatesParse ==
    \A i \in 1..Len(cattle_df) :
        PassesFilters(cattle_df[i]) => ClaimDate(cattle_df[i]) # NaT

\* C18: transform_cattle_data returns one record for each row whose
\* commodity contains 'Cattle' and not 'Calves' and whose description is
\* one of the four, and for no other row; rows with another commodity (a
\* null one included) or another description are dropped and the call
\* does not raise.  (Stated for frames whose kept rows have dates that
\* parse and numeric volumes, on a pandas whose apply answers a Series.)
C18_OtherRowsDroppedSilently ==
    (/\ which = "cattle"
     /\ out1.called
     /\ ~legacy_apply
     /\ DatesParse
     /\ VolumesNumeric) =>
        LET passing == SelectSeq(cattle_df, PassesFilters)
        IN  /\ out1.raised = "none"
            /\ Len(out1.records) = Len(passing)
            /\ \A k \in 1..Len(passing) :
                  /\ out1.records[k].description = passing[k].description
                  /\ out1.records[k].unit = passing[k].unit

\* C19: in every record of transform_cattle_data class is neither null nor
\* the empty string: it is 'All' when the row's class is null or empty and
\* the row's class otherwise.
C19_ClassDefaultsToAll ==
    (which = "cattle" /\ out1.called /\ out1.raised = "none") =>
        LET kept == SelectSeq(cattle_df, ClaimKept)
        IN  /\ Len(out1.records) = Len(kept)
            /\ \A k \in 1..Len(kept) :
                  /\ ~IsNa(out1.records[k].class)
                  /\ out1.records[k].class # Str(<<>>)
                  /\ out1.records[k].class =
                        (IF kept[k].class \in {Null, NaN, Str(<<>>)}
                         THEN Str(<<"All">>) ELSE kept[k].class)

C19_Witness ==
    /\ which = "cattle"
    /\ out1.called
    /\ Len(out1.records) = 2
    /\ cattle_df[1].class = Str(<<>>)
    /\ cattle_df[2].class = Str(<<"Steers">>)
    /\ out1.records[1].class = Str(<<"All">>)
    /\ out1.records[2].class = Str(<<"Steers">>)

\* C20: a transform called on a frame without rows returns an empty list
\* of records and does not raise.
C20_EmptyFrameEmptyList ==
    (/\ which # "none"
     /\ out1.called
     /\ (IF which = "cattle" THEN cattle_df ELSE commodity_df) = <<>>) =>
        out1 = Returned(<<>>)

\* C21: transform_commodity_data returns at most one record for each
\* (date, commodity_symbol) pair, also when a date appears in more than
\* one row of the wide frame.
C21_OneRecordPerDateAndSymbol ==
    (which = "commodity" /\ out1.called /\ out1.raised = "none") =>
        \A d \in FrameDates : \A c \in ClaimSymbols :
            Cardinality(RecordsOf(out1, d, c)) <= 1

-----------------------------------------------------------------------------
(* Claims about the bulk loaders of supabase_uploader.py, checked under    *)
(* SpecLoad.                                                               *)

IsInsert(c) == c.op = "insert"

Inserts == SelectSeq(calls, IsInsert)

RECURSIVE Flatten(_)
Flatten(ss) == IF ss = <<>> THEN <<>> ELSE Head(ss) \o Flatten(Tail(ss))

\* the number of batches of n records, 50 to a batch
BatchCount(n) == (n + 49) \div 50

\* C6: when every insert succeeds, a loader given N records issues exactly
\* ceil(N/50) insert calls, every batch but the last holds 50 records, and
\* the batches in issue order concatenate to the input; none for N = 0.
C6_BatchesPartitionInput ==
    (/\ loader # "none"
     /\ lpc = "done"
     /\ \A k \in 1..Len(Inserts) : Inserts[k].ok) =>
        /\ Len(Inserts) = BatchCount(Len(records))
        /\ \A k \in 1..(Len(Inserts) - 1) : Len(Inserts[k].batch) = 50
        /\ Flatten([k \in 1..Len(Inserts) |-> Inserts[k].batch]) = records
        /\ (records = <<>> => Inserts = <<>>)

C6_Witness ==
    /\ loader = "cattle"
    /\ lpc = "done"
    /\ Len(records) = 101
    /\ Len(Inserts) = 3
    /\ \A k \in 1..3 : Inserts[k].ok
    /\ Len(Inserts[3].batch) = 1

\* the insert calls made for batch b, and whether one of them succeeded
InsertsOf(b) == {k \in 1..Len(Inserts) : Inserts[k].batch_num = b}

Loaded(b) == \E k \in InsertsOf(b) : Inserts[k].ok

\* the records of batch b of the input
BatchRecords(b) ==
    SubSeq(records, 50 * (b - 1) + 1, Min(50 * b, Len(records)))

RECURSIVE LoadedRecords(_)
LoadedRecords(b) ==
    IF b = 0 THEN <<>>
    ELSE LoadedRecords(b - 1) \o (IF Loaded(b) THEN BatchRecords(b) ELSE <<>>)

\* the rows left in the target table once the clear step is over
Kept ==
    IF \E k \in 1..Len(calls) : calls[k].op = "delete" /\ calls[k].ok
    THEN <<>> ELSE stale

\* C7: a batch whose insert fails on every attempt does not end the load:
\* the loader returns having attempted every batch, a batch without a
\* successful insert was tried three times, and the table holds the input
\* minus exactly the batches that failed every time.
C7_FailedBatchSkipped ==
    (loader # "none" /\ lpc = "done") =>
        /\ \A b \in 1..BatchCount(Len(records)) :
              /\ InsertsOf(b) # {}
              /\ ~Loaded(b) => Cardinality(InsertsOf(b)) = 3
        /\ tables[TableOf(loader)] =
              Kept \o LoadedRecords(BatchCount(Len(records)))

C7_Witness ==
    /\ loader = "commodity"
    /\ lpc = "done"
    /\ Len(records) = 101
    /\ Loaded(1)
    /\ ~Loaded(2)
    /\ Loaded(3)
    /\ tables.commodity_prices = stale \o BatchRecords(1) \o BatchRecords(3)

\* C14: when the delete-all that opens upload_cattle_data fails, the load
\* goes on: it returns only after every batch has been attempted, and the
\* table then holds the rows it held before followed by every batch whose
\* insert succeeded (all of the input when none failed).
C14_DeleteFailureKeepsStale ==
    (/\ loader = "cattle"
     /\ calls # <<>>
     /\ calls[1].op = "delete"
     /\ ~calls[1].ok) =>
        /\ lpc \in {"loop", "done"}
        /\ lpc = "done" =>
              /\ \A b \in 1..BatchCount(Len(records)) : InsertsOf(b) # {}
              /\ tables.cattle_slaughter =
                    stale \o LoadedRecords(BatchCount(Len(records)))
              /\ (\A k \in 1..Len(Inserts) : Inserts[k].ok) =>
                    tables.cattle_slaughter = stale \o records

C14_Witness ==
    /\ loader = "cattle"
    /\ lpc = "done"
    /\ stale = <<0>>
    /\ Len(records) = 101
    /\ calls[1] = DeleteCall(FALSE)
    /\ Len(Inserts) = 3
    /\ \A k \in 1..3 : Inserts[k].ok
    /\ tables.cattle_slaughter = <<0>> \o records

\* the attempt number of the insert at position k of calls: how many
\* inserts of its batch were made up to and including it
AttemptNo(k) ==
    Cardinality({j \in 1..k :
        calls[j].op = "insert" /\ calls[j].batch_num = calls[k].batch_num})

\* C27: each batch has a retry budget of its own.  A batch is inserted at
\* most 3 times; a failed 1st or 2nd attempt is followed by a sleep of 1s
\* or 2s, whatever happened to the batches before; a failed 3rd attempt and
\* a successful attempt are followed by no sleep and no further attempt
\* on that batch; and the next call after either is the insert of the next
\* batch, so batch k+1 is never attempted before batch k is settled.
C27_BatchOwnsRetryBudget ==
    loader # "none" =>
        \A k \in 1..Len(calls) :
            calls[k].op = "insert" =>
                /\ AttemptNo(k) <= 3
                /\ (~calls[k].ok /\ AttemptNo(k) < 3) =>
                      /\ k < Len(calls)
                      /\ calls[k + 1].op = "sleep"
                      /\ calls[k + 1].batch_num = calls[k].batch_num
                      /\ calls[k + 1].secs = AttemptNo(k)
                      /\ (k + 1 < Len(calls) =>
                            /\ calls[k + 2].op = "insert"
                            /\ calls[k + 2].batch_num = calls[k].batch_num)
                /\ ((calls[k].ok \/ AttemptNo(k) = 3) /\ k < Len(calls)) =>
                      /\ calls[k + 1].op = "insert"
                      /\ calls[k + 1].batch_num = calls[k].batch_num + 1

C27_Witness ==
    /\ loader = "commodity"
    /\ lpc = "done"
    /\ Len(records) = 101
    /\ Len(calls) = 11
    /\ [k \in 1..11 |-> calls[k].op] =
          <<"insert", "sleep", "insert", "sleep", "insert",
            "insert", "sleep", "insert", "sleep", "insert", "insert">>
    /\ [k \in 1..11 |-> calls[k].batch_num] = <<1, 1, 1, 1, 1, 2, 2, 2, 2, 2, 3>>
    /\ [k \in 1..11 |-> calls[k].secs] = <<0, 1, 0, 2, 0, 0, 1, 0, 2, 0, 0>>
    /\ calls[5].ok
    /\ ~calls[10].ok
    /\ calls[11].ok

-----------------------------------------------------------------------------
(* Claims about repeated loads, checked under SpecReload.                  *)

\* the position in calls of the delete that opened the current run
LastDelete ==
    CHOOSE d \in 1..Len(calls) :
        /\ calls[d].op = "delete"
        /\ \A k \in (d + 1)..Len(calls) : calls[k].op # "delete"

\* the current run's delete and every insert after it succeeded
CleanRun ==
    /\ \E d \in 1..Len(calls) : calls[d].op = "delete"
    /\ calls[LastDelete].ok
    /\ \A k \in (LastDelete + 1)..Len(calls) :
          calls[k].op = "insert" => calls[k].ok

\* C15: when the delete and every insert of a run of upload_cattle_data
\* succeed, cattle_slaughter holds exactly the input records once the run
\* is over, whatever it held before: the rows of before the first run,
\* what an earlier run left (partial or complete), or nothing; so any
\* number of such runs leaves one copy of each record.
C15_CleanLoadReplacesTable ==
    (loader = "cattle" /\ lpc = "done" /\ CleanRun) =>
        tables.cattle_slaughter = records

C15_Witness ==
    /\ loader = "cattle"
    /\ lpc = "done"
    /\ runs = 2
    /\ stale = <<0>>
    /\ Len(records) = BatchSize + 1
    /\ ~calls[1].ok
    /\ Len(Inserts) = 4
    /\ \A k \in 1..4 : Inserts[k].ok
    /\ CleanRun
    /\ tables.cattle_slaughter = records

IsPrefix(a, b) == Len(a) <= Len(b) /\ SubSeq(b, 1, Len(a)) = a

RECURSIVE Copies(_, _)
Copies(r, k) == IF k = 0 THEN <<>> ELSE r \o Copies(r, k - 1)

\* C16: upload_to_supabase never issues a delete and no step of it removes
\* a row of commodity_prices: each step leaves the table as it was or with
\* rows appended; after k runs on the same records in which every insert
\* succeeded, the table holds what it held before followed by k copies of
\* the records.
C16_CommodityTableOnlyGrows ==
    /\ [](loader = "commodity" =>
            /\ \A k \in 1..Len(calls) : calls[k].op # "delete"
            /\ (lpc = "done" /\ \A k \in 1..Len(Inserts) : Inserts[k].ok) =>
                  tables.commodity_prices = stale \o Copies(records, runs))
    /\ [][loader = "commodity" =>
            IsPrefix(tables.commodity_prices, tables.commodity_prices')]_vars

C16_Witness ==
    /\ loader = "commodity"
    /\ lpc = "done"
    /\ runs = 2
    /\ stale = <<0>>
    /\ Len(records) = BatchSize + 1
    /\ Len(Inserts) = 4
    /\ \A k \in 1..4 : Inserts[k].ok
    /\ tables.commodity_prices = <<0>> \o records \o records

-----------------------------------------------------------------------------
(* Claim about readers of a table under load, checked under SpecRead.      *)

\* the table after the first n calls of the load: the rows of before,
\* unless a delete among those calls succeeded, followed by the batches
\* whose insert among those calls succeeded
KeptAt(n) ==
    IF \E k \in 1..n : calls[k].op = "delete" /\ calls[k].ok
    THEN <<>> ELSE stale

LoadedAt(n) ==
    Flatten([k \in 1..n |->
        IF calls[k].op = "insert" /\ calls[k].ok THEN calls[k].batch
        ELSE <<>>])

\* C17: nothing isolates a reader from a load in progress: a read made
\* after n calls of the load answers with the table as those n calls left
\* it; in particular a read of cattle_slaughter after the delete succeeded
\* and before an insert did answers with no rows, and a read later in the
\* load with the batches inserted so far.
C17_ReaderSeesLoadInProgress ==
    loader = "cattle" =>
        \A r \in 1..Len(seen) :
            /\ seen[r].rows = KeptAt(seen[r].at) \o LoadedAt(seen[r].at)
            /\ (/\ seen[r].at >= 1
                /\ calls[1].ok
                /\ LoadedAt(seen[r].at) = <<>>) => seen[r].rows = <<>>

C17_Witness ==
    /\ loader = "cattle"
    /\ lpc = "loop"
    /\ stale = <<0>>
    /\ Len(records) = MaxRecords
    /\ Len(seen) = 2
    /\ seen[1].at = 1
    /\ seen[1].rows = <<>>
    /\ seen[2].rows = BatchRecords(1)
    /\ offset = BatchSize

\* C25: the dashboard reads the table the commodity loader writes: a
\* load_commodity_data query made after n calls of upload_to_supabase
\* answers with every record those calls inserted.
C25_DashboardReadsLoadedRecords ==
    loader = "commodity" =>
        \A r \in 1..Len(seen) :
            \A k \in 1..Len(LoadedAt(seen[r].at)) :
                \E j \in 1..Len(seen[r].rows) :
                    seen[r].rows[j] = LoadedAt(seen[r].at)[k]

-----------------------------------------------------------------------------
(* Claim about the loader of upload_to_supabase.py, checked under          *)
(* SpecCsvLoad.                                                            *)

\* the insert calls made for batch b of table t
CsvInsertsOf(t, b) ==
    {k \in 1..Len(csv_calls) :
        csv_calls[k].table = CsvTables[t] /\ csv_calls[k].batch_num = b}

\* C8: in upload_to_supabase(csv_file) a batch whose insert fails is logged
\* and skipped: when the load is over, every batch of every table of the
\* input has been attempted, whatever failed on the way.
C8_CsvFailedBatchSkipped ==
    (csv_pc \in {"done", "raised"} /\ csv_calls # <<>>) =>
        \A t \in 1..4 : \A b \in 1..((csv_sizes[t] + 99) \div 100) :
            CsvInsertsOf(t, b) # {}

-----------------------------------------------------------------------------
(* Claims about _make_request, checked under SpecRequest.                  *)

IsGet(e) == e.ev = "get"

Gets == SelectSeq(rlog, IsGet)

\* every GET so far ended in a connection error, a timeout or a 5xx status
AllTransient ==
    \A k \in 1..Len(Gets) :
        Gets[k].kind = "exception" \/ (Gets[k].kind = "status" /\ Gets[k].status >= 500)

\* every GET so far was answered 429 with a usable Retry-After or none
AllRateLimited ==
    \A k \in 1..Len(Gets) :
        Gets[k].kind = "rate" /\ Gets[k].header \in {"absent", "int"}

\* C9: when every GET fails with a connection, timeout or 5xx error,
\* _make_request issues at most max_retries GETs, sleeps 2^n seconds after
\* the n-th failure before the next GET, and raises the max_retries-th
\* error again without a sleep; a 200 ends the call with that response's
\* body and no further GET.
C9_TransientRetriedWithBackoff ==
    /\ (max_retries > 0 /\ AllTransient) =>
          /\ Len(Gets) <= max_retries
          /\ retries = Len(Gets)
          /\ \A k \in 1..Len(rlog) :
                IF k % 2 = 1 THEN rlog[k].ev = "get"
                ELSE rlog[k].ev = "sleep" /\ rlog[k].secs = 2 ^ (k \div 2)
          /\ IF Len(Gets) = max_retries
             THEN /\ rpc = "raised"
                  /\ rresult.error = Gets[Len(Gets)].error
                  /\ rlog[Len(rlog)].ev = "get"
             ELSE /\ rpc = "loop"
                  /\ Len(rlog) = 2 * Len(Gets)
    /\ \A k \in 1..Len(rlog) :
          (rlog[k].ev = "get" /\ rlog[k].kind = "ok") =>
              /\ k = Len(rlog)
              /\ rpc = "returned"
              /\ rresult = [body |-> rlog[k].body, error |-> "none"]

C9_Witness ==
    /\ max_retries = 3
    /\ AllTransient
    /\ Len(Gets) = 3
    /\ rpc = "raised"
    /\ rresult.error = "Timeout"
    /\ Len(rlog) = 5
    /\ rlog[2].secs = 2
    /\ rlog[4].secs = 4

\* C10 as stated: a 429 is slept through and retried without consuming the
\* retry budget, so under 429 after 429 the call never ends.
C10_RateLimitFreeOfBudget ==
    (max_retries > 0 /\ AllRateLimited) => (retries = 0 /\ rpc = "loop")

\* C10, amended: a 429 causes a sleep of Retry-After seconds (60 when the
\* header is absent) and a retry that does consume the retry budget: under
\* 429 after 429 the call issues max_retries GETs, each followed by that
\* sleep, and then raises "Max retries exceeded".
C10_RateLimitConsumesBudget ==
    (max_retries > 0 /\ AllRateLimited) =>
        /\ retries = Len(Gets)
        /\ Len(Gets) <= max_retries
        /\ Len(rlog) = 2 * Len(Gets)
        /\ \A k \in 1..Len(Gets) :
              /\ rlog[2 * k - 1] = Gets[k]
              /\ rlog[2 * k].ev = "sleep"
              /\ rlog[2 * k].secs =
                    (IF Gets[k].header = "absent" THEN 60 ELSE Gets[k].secs)
        /\ IF Len(Gets) = max_retries
           THEN rpc = "raised" /\ rresult.error = "Max retries exceeded"
           ELSE rpc = "loop"

C10_Witness ==
    /\ max_retries = 3
    /\ AllRateLimited
    /\ Len(Gets) = 3
    /\ Gets[1].header = "absent"
    /\ Gets[2].header = "int"
    /\ rpc = "raised"
    /\ rresult.error = "Max retries exceeded"

\* C11: a response whose status is non-2xx and neither 429 nor 5xx (here
\* 404) is fatal: it is the last thing _make_request does, the call ends
\* raising that response's error, and no sleep or further GET follows it.
C11_ClientErrorFatal ==
    \A k \in 1..Len(rlog) :
        (/\ rlog[k].ev = "get"
         /\ rlog[k].kind = "status"
         /\ rlog[k].status >= 400
         /\ rlog[k].status < 500
         /\ rlog[k].status # 429) =>
            /\ k = Len(rlog)
            /\ rpc = "raised"
            /\ rresult.error = rlog[k].error

\* C26: _make_request ends after at most max_retries GET requests whatever
\* the server answers, a status that is neither 200 nor 429 nor an error
\* (204) included: it never issues a GET beyond the max_retries-th.
C26_AtMostMaxRetriesGets ==
    max_retries > 0 => Len(Gets) <= max_retries

-----------------------------------------------------------------------------
(* Claims about the section fetches, checked under SpecFetch.              *)

\* the section and the report of the k-th section query
SectionOf(k) == Sections[((k - 1) % Len(Sections)) + 1]
ReportOf(k) == matching_reports[((k - 1) \div Len(Sections)) + 1]

\* the rows of the items answered to the section queries that succeeded
AnsweredRows ==
    Flatten([k \in 1..Len(SectionGets) |->
        IF SectionGets[k].ok
        THEN [j \in 1..ItemsIn[((k - 1) % Len(Sections)) + 1] |-> 10 * k + j]
        ELSE <<>>])

\* C12: for each report the fetch processes, one query filtered by that
\* report's report_end_date is made per section of the five-section list,
\* in list order, whether or not earlier queries failed: the fetch ends
\* only after five queries per report, and what it has collected is
\* exactly the items of the queries that succeeded, in query order.
C12_OneQueryPerSectionNoAbort ==
    /\ \A k \in 1..Len(SectionGets) :
          /\ (k - 1) \div Len(Sections) < Len(matching_reports)
          /\ SectionGets[k].endpoint = SectionOf(k)
          /\ SectionGets[k].q = ReportOf(k).report_end_date
    /\ fpc = "done" => Len(SectionGets) = Len(Sections) * Len(matching_reports)
    /\ [n \in 1..Len(all_data) |-> all_data[n]["row"].n] = AnsweredRows

C12_Witness ==
    /\ fetcher = "historical"
    /\ fpc = "done"
    /\ matching_reports = <<OctoberReport, DecemberReport>>
    /\ Len(SectionGets) = 10
    /\ ~SectionGets[2].ok
    /\ ~SectionGets[10].ok
    /\ \A k \in {1} \cup 3..9 : SectionGets[k].ok
    /\ Len(all_data) = 8

\* the report-level keys the claim names
ReportKeys ==
    {"office_name", "office_code", "office_city", "office_state",
     "report_date", "report_begin_date", "report_end_date", "report_title"}

\* the number of the section query that answered an item
QueryOf(item) == item["row"].n \div 10

\* C13: every item collected by fetch_historical_data carries the name of
\* the section whose query answered it and, under the office, date and
\* title keys, the values of the report that query was made for, whatever
\* the item held under those keys when it arrived.
C13_ItemsCarryOwnReportAndSection ==
    fetcher = "historical" =>
        \A n \in 1..Len(all_data) :
            /\ all_data[n]["section"] = Str(<<SectionOf(QueryOf(all_data[n]))>>)
            /\ \A key \in ReportKeys :
                  all_data[n][key] = ReportOf(QueryOf(all_data[n]))[key]

C13_Witness ==
    /\ fetcher = "historical"
    /\ fpc = "done"
    /\ matching_reports = <<OctoberReport, DecemberReport>>
    /\ \E n \in 1..Len(all_data) :
          /\ all_data[n]["office_name"] = OctoberReport.office_name
          /\ all_data[n]["section"] = Str(<<"Report FIS Cattle">>)
    /\ \E n \in 1..Len(all_data) :
          /\ all_data[n]["report_end_date"] = DecemberReport.report_end_date
          /\ all_data[n]["section"] = Str(<<"Report FIS Region">>)

\* C24: when the metadata request of fetch_historical_data fails for good
\* (its retries are used up), the call does not return normally: the
\* failure reaches the caller.
C24_MetadataFailurePropagates ==
    (/\ fetcher = "historical"
     /\ queries # <<>>
     /\ queries[1].endpoint = "metadata"
     /\ ~queries[1].ok) => fpc # "done"

\* C28: in the fetch loops a sleep separates any two consecutive remote
\* calls: no two successful requests are issued one right after the other.
C28_SleepBetweenRequests ==
    \A k \in 1..(Len(queries) - 1) :
        ~(/\ queries[k].op = "get"
          /\ queries[k].ok
          /\ queries[k + 1].op = "get"
          /\ queries[k + 1].ok)

-----------------------------------------------------------------------------
(* process_csv_data (upload_to_supabase.py).  A row of the frame keeps the *)
(* columns the function reads: section, slaughter_date, unit and volume;   *)
(* a row of a resulting table also keeps idx, its position in the frame.   *)

MaxFrame == 2       \* rows of the frame handed to process_csv_data

CsvRow(section, slaughter_date, unit, volume) ==
    [section |-> section, slaughter_date |-> slaughter_date, unit |-> unit,
     volume |-> volume]

SaturdayDate == Str(<<"1", "2", "/", "2", "8", "/", "2", "4">>)

\* the rows the frames of the model are made of
KnownCsvRows ==
    LET species == Str(<<"Report FIS Species">>)
        head == Str(<<"head">>)
        all == Str(<<"All">>)
        pct == Str(<<"Pct">>)
        vol == Str(<<"1", "0", "0">>)
    IN  { CsvRow(species, SaturdayDate, head, vol),
          CsvRow(species, all, head, vol),
          CsvRow(species, Null, head, vol),
          CsvRow(species, Str(<<"n", "/", "a">>), head, vol),
          CsvRow(species, SaturdayDate, pct, vol),
          CsvRow(species, SaturdayDate, Null, Str(<<"-">>)),
          CsvRow(Str(<<"Report FIS Meat Production">>), all,
                 Str(<<"lbs">>), vol),
          CsvRow(Str(<<"Report FIS Head Percent">>), SaturdayDate, pct, vol),
          CsvRow(Str(<<"Report FIS Region">>), SaturdayDate, head, Null),
          CsvRow(Str(<<"Report FIS Cattle">>), SaturdayDate, head, vol),
          CsvRow(Null, SaturdayDate, head, vol) }

\* the section each table is made of, in the order the tables are processed
SectionOfTable ==
    [cattle_slaughter |-> "Report FIS Species",
     meat_production |-> "Report FIS Meat Production",
     head_percent |-> "Report FIS Head Percent",
     region_data |-> "Report FIS Region"]

\* species_df's mask, without the test of the unit
SpeciesMaskAnyUnit(row) ==
    /\ row.slaughter_date # Str(<<"All">>)
    /\ ~IsNa(row.slaughter_date)

\* (slaughter_date != 'All') & slaughter_date.notna() & (unit != 'Pct')
SpeciesMask(row) ==
    /\ row.slaughter_date # Str(<<"All">>)
    /\ ~IsNa(row.slaughter_date)
    /\ row.unit # Str(<<"Pct">>)

\* positions of the rows of df that go to table t
Subset(df, t) ==
    {n \in 1..Len(df) :
        /\ df[n].section = Str(<<SectionOfTable[t]>>)
        /\ t = "cattle_slaughter" => SpeciesMask(df[n])}

\* pd.to_datetime(value, errors='coerce') then clean_data_for_json: a date
\* in either year width becomes the text of its timestamp, anything else
\* (a null, 'All') becomes None
CleanDate(c) ==
    LET short == ToDatetime(c, "%m/%d/%y", "coerce").ts
        long == ToDatetime(c, "%m/%d/%Y", "coerce").ts
        ts == IF short # NaT THEN short ELSE long
    IN  IF ts = NaT THEN Null
        ELSE Str(Strftime(ts).s \o <<" ", "00:00:00">>)

\* pd.to_numeric(value, errors='coerce') then clean_data_for_json
CleanVolume(c) ==
    LET f == ToFloat(c)
    IN  IF f.raised \/ IsNa(f.v) THEN Null ELSE f.v

\* clean_data_for_json on a text cell
CleanText(c) == IF IsNa(c) THEN Null ELSE c

TableRow(df, n) ==
    [idx |-> n,
     section |-> CleanText(df[n].section),
     slaughter_date |-> CleanDate(df[n].slaughter_date),
     unit |-> CleanText(df[n].unit),
     volume |-> CleanVolume(df[n].volume)]

\* the rows at the positions ns of df, in frame order
RECURSIVE TableRows(_, _)
TableRows(df, ns) ==
    IF ns = {} THEN <<>>
    ELSE LET last == CHOOSE n \in ns : \A k \in ns : k <= n
         IN  Append(TableRows(df, ns \ {last}), TableRow(df, last))

\* process_csv_data(df): a key for every table whose subset is not empty
ProcessCsvData(df) ==
    [t \in {u \in DOMAIN SectionOfTable : Subset(df, u) # {}} |->
        TableRows(df, Subset(df, t))]

InitProcess ==
    /\ IdleTransform
    /\ IdleLoad
    /\ IdleCsvLoad
    /\ IdleRequest
    /\ IdleFetch
    /\ IdleLatest
    /\ IdleSeries
    /\ IdleReports
    /\ \E n \in 0..MaxFrame : csv_df \in [1..n -> KnownCsvRows]
    /\ dfs = [t \in {} |-> <<>>]
    /\ ppc = "call"

ProcessCsv ==
    /\ ppc = "call"
    /\ dfs' = ProcessCsvData(csv_df)
    /\ ppc' = "returned"
    /\ UNCHANGED <<csv_df, tvars, lvars, cvars, rvars, fvars, bvars, hvars,
                   mvars>>

NextProcess == ProcessCsv

SpecProcess == InitProcess /\ [][NextProcess]_vars

\* the positions of the frame that table t holds
Held(t) == {dfs[t][k].idx : k \in 1..Len(dfs[t])}

-----------------------------------------------------------------------------
(* CommodityFetcher.fetch_latest_prices (commodity_fetcher.py).  A step is *)
(* one pass of the loop: the request of a batch and the sleep after it.    *)

MaxSymbols == 5     \* symbols handed to fetch_latest_prices

max_symbols_per_request == 2
LatestSleep == 1

LatestSymbols == {"BEEF", "CORN", "LC00"}

EmptyDict == [s \in {} |-> 0]

\* faulty variant: the slice runs one symbol past the batch
BatchOfOverlapping(syms, start) ==
    SubSeq(syms, start + 1,
           Min(start + max_symbols_per_request + 1, Len(syms)))

\* symbols[i:i + self.max_symbols_per_request]
BatchOf(syms, start) ==
    SubSeq(syms, start + 1, Min(start + max_symbols_per_request, Len(syms)))

\* what fetch_latest_prices_batch can return for the k-th request: ({}, {})
\* when the request failed (timeout, error status, undecodable body, API
\* error), else the rates and units the API answered with, for all the
\* symbols of the batch or for the first one only.  The rate of the k-th
\* answer is k.
BatchAnswers(batch, k) ==
    LET named == {batch[j] : j \in 1..Len(batch)}
    IN  {[ok |-> FALSE, rates |-> EmptyDict, unit |-> EmptyDict]}
        \cup {[ok |-> TRUE, rates |-> [s \in part |-> k],
               unit |-> [s \in part |-> "lb"]] :
                 part \in {named, {batch[1]}}}

LatestGet(batch, answer) ==
    [op |-> "get", batch |-> batch, ok |-> answer.ok, rates |-> answer.rates,
     secs |-> 0]

LatestSleepCall(secs) ==
    [op |-> "sleep", batch |-> <<>>, ok |-> TRUE, rates |-> EmptyDict,
     secs |-> secs]

InitLatest ==
    /\ IdleTransform
    /\ IdleLoad
    /\ IdleCsvLoad
    /\ IdleRequest
    /\ IdleFetch
    /\ IdleProcess
    /\ IdleSeries
    /\ IdleReports
    /\ \E n \in 0..MaxSymbols : symbols \in [1..n -> LatestSymbols]
    /\ batch_start = 0
    /\ latest_log = <<>>
    /\ all_prices = EmptyDict
    /\ all_units = EmptyDict
    /\ latest_pc = "loop"

\* faulty variant: a failed batch ends the loop
FetchBatchAborting ==
    /\ latest_pc = "loop"
    /\ batch_start < Len(symbols)
    /\ LET batch == BatchOf(symbols, batch_start)
           k == (batch_start \div max_symbols_per_request) + 1
       IN  \E answer \in BatchAnswers(batch, k) :
             /\ latest_log' = latest_log \o <<LatestGet(batch, answer),
                                              LatestSleepCall(LatestSleep)>>
             /\ all_prices' = DictUpdate(all_prices, answer.rates)
             /\ all_units' = DictUpdate(all_units, answer.unit)
             /\ batch_start' = IF answer.ok
                               THEN batch_start + max_symbols_per_request
                               ELSE Len(symbols)
    /\ UNCHANGED <<symbols, latest_pc, tvars, lvars, cvars, rvars, fvars,
                   pvars, hvars, mvars>>

\* one pass of the loop of fetch_latest_prices
FetchBatch ==
    /\ latest_pc = "loop"
    /\ batch_start < Len(symbols)
    /\ LET batch == BatchOf(symbols, batch_start)
           k == (batch_start \div max_symbols_per_request) + 1
       IN  \E answer \in BatchAnswers(batch, k) :
             /\ latest_log' = latest_log \o <<LatestGet(batch, answer),
                                              LatestSleepCall(LatestSleep)>>
             /\ all_prices' = DictUpdate(all_prices, answer.rates)
             /\ all_units' = DictUpdate(all_units, answer.unit)
             /\ batch_start' = batch_start + max_symbols_per_request
    /\ UNCHANGED <<symbols, latest_pc, tvars, lvars, cvars, rvars, fvars,
                   pvars, hvars, mvars>>

\* return all_prices, all_units
ReturnLatest ==
    /\ latest_pc = "loop"
    /\ batch_start >= Len(symbols)
    /\ latest_pc' = "returned"
    /\ UNCHANGED <<symbols, batch_start, latest_log, all_prices, all_units,
                   tvars, lvars, cvars, rvars, fvars, pvars, hvars, mvars>>

NextLatest == FetchBatch \/ ReturnLatest

SpecLatest == InitLatest /\ [][NextLatest]_vars

IsLatestGet(e) == e.op = "get"

\* the requests made so far
LatestGets == SelectSeq(latest_log, IsLatestGet)

RECURSIVE BatchesOf(_)
BatchesOf(gets) ==
    IF gets = <<>> THEN <<>> ELSE <<Head(gets).batch>> \o BatchesOf(Tail(gets))

\* the successful requests that answered with a rate for s
Priced(s) ==
    {k \in 1..Len(LatestGets) :
        LatestGets[k].ok /\ s \in DOMAIN LatestGets[k].rates}

\* C22: fetch_latest_prices on n symbols never names more than 2 symbols in
\* a request, and when it returns it has issued exactly ceil(n/2) requests
\* whose batches, in issue order, concatenate to the list (every position
\* of the list is named in exactly one request), whether requests failed
\* or not; the prices returned are the union of the rates of the successful
\* requests (a later request winning), a failed request adding nothing.
C22_LatestBatches ==
    /\ \A k \in 1..Len(LatestGets) :
          Len(LatestGets[k].batch) \in 1..max_symbols_per_request
    /\ IsPrefix(Flatten(BatchesOf(LatestGets)), symbols)
    /\ latest_pc = "returned" =>
          /\ Len(LatestGets) = (Len(symbols) + 1) \div 2
          /\ Flatten(BatchesOf(LatestGets)) = symbols
          /\ DOMAIN all_prices = {s \in LatestSymbols : Priced(s) # {}}
          /\ \A s \in DOMAIN all_prices :
                \E k \in Priced(s) :
                    /\ \A j \in Priced(s) : j <= k
                    /\ all_prices[s] = LatestGets[k].rates[s]

\* five symbols were fetched in three requests; the second one failed and
\* the prices of the first and the third came back
C22_Witness ==
    /\ latest_pc = "returned"
    /\ Len(symbols) = 5
    /\ Len(LatestGets) = 3
    /\ LatestGets[1].ok
    /\ ~LatestGets[2].ok
    /\ LatestGets[3].ok
    /\ all_prices # EmptyDict

-----------------------------------------------------------------------------
(* CommodityFetcher.fetch_commodity_prices (commodity_fetcher.py).  A step *)
(* is one pass of the loop over the attempts: the request, what is made of *)
(* its answer, and the sleep before the next attempt.                      *)

MaxSeriesRetries == 4   \* the max_retries argument of fetch_commodity_prices

SeriesDefaultRetries == 3
SeriesWaitStep == 5

\* what a request of the time series can end with
SeriesOutcomes ==
    {[kind |-> "timeout", detail |-> d] : d \in {"connect", "read"}}
    \cup {[kind |-> "connection error", detail |-> "refused"]}
    \cup {[kind |-> "status", detail |-> d] :
             d \in {"400", "401", "404", "429", "500", "503"}}
    \cup {[kind |-> "undecodable", detail |-> "body"]}
    \cup {[kind |-> "api error", detail |-> "success false"]}
    \cup {[kind |-> "ok", detail |-> d] : d \in {"no rates", "rates"}}

SeriesGet(outcome) == [op |-> "get", outcome |-> outcome, secs |-> 0]

SeriesSleep(secs) ==
    [op |-> "sleep", outcome |-> [kind |-> "none", detail |-> ""],
     secs |-> secs]

\* faulty variant: the same wait before every retry
SeriesWaitFlat(att) == SeriesWaitStep

\* wait_time = (attempt + 1) * 5
SeriesWait(att) == (att + 1) * SeriesWaitStep

\* the messages of the exceptions an outcome other than a timeout or a
\* frame is re-raised with.  response.json() raises a RequestException in
\* the requests releases that have requests.JSONDecodeError and a plain
\* json.JSONDecodeError in the older ones: either handler may take it.
SeriesMessages(outcome) ==
    IF outcome.kind \in {"connection error", "status"}
    THEN {"Error fetching data from API"}
    ELSE IF outcome.kind = "undecodable"
    THEN {"Error fetching data from API", "Error decoding API response"}
    ELSE {"Unexpected error"}

TimedOutMessage == "API request timed out after multiple retries"

InitSeries ==
    /\ IdleTransform
    /\ IdleLoad
    /\ IdleCsvLoad
    /\ IdleRequest
    /\ IdleFetch
    /\ IdleProcess
    /\ IdleLatest
    /\ IdleReports
    /\ series_retries \in 0..MaxSeriesRetries
    /\ series_attempt = 0
    /\ series_log = <<>>
    /\ series_result = "none"

\* one pass of the loop of fetch_commodity_prices
SeriesAttempt ==
    /\ series_result = "none"
    /\ series_attempt < series_retries
    /\ \E outcome \in SeriesOutcomes :
          IF outcome.kind = "ok"
          THEN /\ series_log' = Append(series_log, SeriesGet(outcome))
               /\ series_result' = "frame"
               /\ UNCHANGED series_attempt
          ELSE IF outcome.kind = "timeout"
          THEN IF series_attempt < series_retries - 1
               THEN /\ series_log' =
                          series_log \o <<SeriesGet(outcome),
                                         SeriesSleep(SeriesWait(series_attempt))>>
                    /\ series_attempt' = series_attempt + 1
                    /\ UNCHANGED series_result
               ELSE /\ series_log' = Append(series_log, SeriesGet(outcome))
                    /\ series_result' = TimedOutMessage
                    /\ UNCHANGED series_attempt
          ELSE /\ series_log' = Append(series_log, SeriesGet(outcome))
               /\ series_result' \in SeriesMessages(outcome)
               /\ UNCHANGED series_attempt
    /\ UNCHANGED <<series_retries, tvars, lvars, cvars, rvars, fvars, pvars,
                   bvars, mvars>>

\* the loop has no pass to make: the function ends without a return
SeriesFallThrough ==
    /\ series_result = "none"
    /\ series_attempt >= series_retries
    /\ series_result' = "nothing"
    /\ UNCHANGED <<series_retries, series_attempt, series_log, tvars, lvars,
                   cvars, rvars, fvars, pvars, bvars, mvars>>

NextSeries == SeriesAttempt \/ SeriesFallThrough

SpecSeries == InitSeries /\ [][NextSeries]_vars

IsSeriesGet(e) == e.op = "get"

\* the requests made so far
SeriesGets == SelectSeq(series_log, IsSeriesGet)

\* the number of requests among the first k entries of the log
SeriesGetNo(k) == Len(SelectSeq(SubSeq(series_log, 1, k), IsSeriesGet))

-----------------------------------------------------------------------------
(* USDAReportFetcher.fetch_multiple_reports (usda_fetcher.py).  A step is  *)
(* one pass of the loop over the reports: the details request, the prices  *)
(* request and the rows made of the two answers.                           *)

MaxReportList == 2  \* reports handed to fetch_multiple_reports

ListedReport(slug_id, title, rdate) ==
    [slug_id |-> slug_id, report_title |-> title, report_date |-> rdate]

\* the reports the lists of the model are made of
ListedReports ==
    {ListedReport("2460", "Feeder Cattle", "12/27/2024"),
     ListedReport("3658", "Federal Inspection Slaughter", "12/28/2024")}

\* an element of a 'results' list: a dict with or without 'report_data',
\* or something that is not a dict
ResultItem(is_dict, has_data, office, desc, data) ==
    [is_dict |-> is_dict, has_data |-> has_data, office_name |-> office,
     commodity_desc |-> desc, report_data |-> data]

\* the 'results' lists the details endpoint answers with
DetailsBodies ==
    { <<>>,
      <<ResultItem(TRUE, TRUE, "Omaha", "", <<"steers", "heifers">>)>>,
      <<ResultItem(TRUE, FALSE, "Omaha", "header", <<>>),
        ResultItem(FALSE, FALSE, "", "", <<>>),
        ResultItem(TRUE, TRUE, "Dodge City", "", <<"cows">>)>> }

\* the 'results' lists the prices endpoint answers with
PricesBodies ==
    { <<>>,
      <<ResultItem(TRUE, FALSE, "Omaha", "bulls", <<>>)>>,
      <<ResultItem(FALSE, FALSE, "", "", <<>>),
        ResultItem(TRUE, TRUE, "Omaha", "calves", <<"ignored">>),
        ResultItem(TRUE, FALSE, "Dodge City", "lambs", <<>>)>> }

ReportRow(report, office, desc) ==
    [slug_id |-> report.slug_id, report_title |-> report.report_title,
     report_date |-> report.report_date, office_name |-> office,
     commodity_desc |-> desc]

\* the rows of one item of the details: one for each of its report_data
ItemRows(report, item) ==
    IF item.is_dict /\ item.has_data
    THEN [j \in 1..Len(item.report_data) |->
            ReportRow(report, item.office_name, item.report_data[j])]
    ELSE <<>>

RECURSIVE DetailsRows(_, _)
DetailsRows(report, results) ==
    IF results = <<>> THEN <<>>
    ELSE ItemRows(report, Head(results))
         \o DetailsRows(report, Tail(results))

\* the rows of the prices: one for each item that is a dict
RECURSIVE PricesRows(_, _)
PricesRows(report, results) ==
    IF results = <<>> THEN <<>>
    ELSE (IF Head(results).is_dict
          THEN <<ReportRow(report, Head(results).office_name,
                           Head(results).commodity_desc)>>
          ELSE <<>>)
         \o PricesRows(report, Tail(results))

\* a request of pass n; results is the list answered with when ok
ReportGet(n, endpoint, report, ok, results) ==
    [n |-> n, endpoint |-> endpoint, slug_id |-> report.slug_id,
     report_date |-> report.report_date, ok |-> ok, results |-> results]

InitReports ==
    /\ IdleTransform
    /\ IdleLoad
    /\ IdleCsvLoad
    /\ IdleRequest
    /\ IdleFetch
    /\ IdleProcess
    /\ IdleLatest
    /\ IdleSeries
    /\ \E n \in 0..MaxReportList : reports \in [1..n -> ListedReports]
    /\ reports_idx = 1
    /\ reports_log = <<>>
    /\ reports_data = <<>>
    /\ reports_pc = "loop"

\* faulty variant: the rows of the details are kept when the prices fail
FetchReportKeepingDetails ==
    /\ reports_pc = "loop"
    /\ reports_idx <= Len(reports)
    /\ LET report == reports[reports_idx]
           n == reports_idx
       IN  \/ /\ reports_log' =
                    Append(reports_log,
                           ReportGet(n, "details", report, FALSE, <<>>))
              /\ UNCHANGED reports_data
           \/ \E details \in DetailsBodies :
                /\ reports_log' = reports_log \o
                      <<ReportGet(n, "details", report, TRUE, details),
                        ReportGet(n, "prices", report, FALSE, <<>>)>>
                /\ reports_data' =
                      reports_data \o DetailsRows(report, details)
           \/ \E details \in DetailsBodies, prices \in PricesBodies :
                /\ reports_log' = reports_log \o
                      <<ReportGet(n, "details", report, TRUE, details),
                        ReportGet(n, "prices", report, TRUE, prices)>>
                /\ reports_data' = reports_data
                      \o DetailsRows(report, details)
                      \o PricesRows(report, prices)
    /\ reports_idx' = reports_idx + 1
    /\ UNCHANGED <<reports, reports_pc, tvars, lvars, cvars, rvars, fvars,
                   pvars, bvars, hvars>>

\* one pass of the loop of fetch_multiple_reports: the details request
\* fails (the prices are not asked for), or the prices request fails, or
\* both answer and the rows are appended
FetchReport ==
    /\ reports_pc = "loop"
    /\ reports_idx <= Len(reports)
    /\ LET report == reports[reports_idx]
           n == reports_idx
       IN  \/ /\ reports_log' =
                    Append(reports_log,
                           ReportGet(n, "details", report, FALSE, <<>>))
              /\ UNCHANGED reports_data
           \/ \E details \in DetailsBodies :
                /\ reports_log' = reports_log \o
                      <<ReportGet(n, "details", report, TRUE, details),
                        ReportGet(n, "prices", report, FALSE, <<>>)>>
                /\ UNCHANGED reports_data
           \/ \E details \in DetailsBodies, prices \in PricesBodies :
                /\ reports_log' = reports_log \o
                      <<ReportGet(n, "details", report, TRUE, details),
                        ReportGet(n, "prices", report, TRUE, prices)>>
                /\ reports_data' = reports_data
                      \o DetailsRows(report, details)
                      \o PricesRows(report, prices)
    /\ reports_idx' = reports_idx + 1
    /\ UNCHANGED <<reports, reports_pc, tvars, lvars, cvars, rvars, fvars,
                   pvars, bvars, hvars>>

\* return pd.DataFrame(all_data), or an empty frame
ReturnReports ==
    /\ reports_pc = "loop"
    /\ reports_idx > Len(reports)
    /\ reports_pc' = "returned"
    /\ UNCHANGED <<reports, reports_idx, reports_log, reports_data, tvars,
                   lvars, cvars, rvars, fvars, pvars, bvars, hvars>>

NextReports == FetchReport \/ ReturnReports

SpecReports == InitReports /\ [][NextReports]_vars

\* the answers to the requests of pass n to the given endpoint
AnswersOf(n, endpoint) ==
    {k \in 1..Len(reports_log) :
        reports_log[k].n = n /\ reports_log[k].endpoint = endpoint}

\* both requests of pass n were answered
BothAnswered(n) ==
    /\ \E k \in AnswersOf(n, "details") : reports_log[k].ok
    /\ \E k \in AnswersOf(n, "prices") : reports_log[k].ok

\* what pass n adds to the rows: nothing unless both requests were answered
Contribution(n) ==
    IF BothAnswered(n)
    THEN LET d == CHOOSE k \in AnswersOf(n, "details") : TRUE
             p == CHOOSE k \in AnswersOf(n, "prices") : TRUE
         IN  DetailsRows(reports[n], reports_log[d].results)
             \o PricesRows(reports[n], reports_log[p].results)
    ELSE <<>>

RECURSIVE Contributions(_)
Contributions(n) ==
    IF n = 0 THEN <<>> ELSE Contributions(n - 1) \o Contribution(n)

\* C30: the rows collected by fetch_multiple_reports are, report by report
\* in list order, the details rows followed by the prices rows of every
\* report both of whose requests succeeded, and nothing of a report one of
\* whose requests failed; every report gets its details request whatever
\* happened to the reports before it, and the call returns.
C30_ReportAllOrNothing ==
    /\ reports_data = Contributions(reports_idx - 1)
    /\ \A n \in 1..(reports_idx - 1) :
          /\ Cardinality(AnswersOf(n, "details")) = 1
          /\ Cardinality(AnswersOf(n, "prices")) <= 1
    /\ reports_pc \in {"loop", "returned"}
    /\ reports_pc = "returned" => reports_idx = Len(reports) + 1

\* the prices request of the first report failed after its details had
\* answered with rows; the second report was fetched whole and the rows
\* returned are its rows only
C30_Witness ==
    /\ reports_pc = "returned"
    /\ Len(reports) = 2
    /\ reports[1].slug_id = "2460"
    /\ reports[2].slug_id = "3658"
    /\ Len(reports_log) = 4
    /\ reports_log[1].ok
    /\ reports_log[1].results # <<>>
    /\ ~reports_log[2].ok
    /\ reports_log[3].ok
    /\ reports_log[4].ok
    /\ reports_data # <<>>
    /\ \A k \in 1..Len(reports_data) : reports_data[k].slug_id = "3658"

====
